---- MODULE Spec2Model ----
(***************************************************************************)
(* A model of the Starshot IR pipeline (src/starshot): the parser, the     *)
(* type, effect and contract checkers and the Python emitter.              *)
(*                                                                         *)
(* AST nodes are records.  Every expression node has the same five fields  *)
(*   k     the node class (LitExpr, IdentExpr, ...)                        *)
(*   name  the node's string attribute (name, op, func, type_hint, field)  *)
(*   val   the value of a literal (an integer code), 0 elsewhere           *)
(*   args  the child expressions, in the order of the dataclass fields     *)
(*   pats  the patterns of match arms, the parameters of a lambda, the     *)
(*         field names of a record construction                            *)
(***************************************************************************)
EXTENDS Integers, Sequences, FiniteSets, TLC

VARIABLES
    program,        \* the Program handed to a pass (a sequence of definitions)
    pc,             \* where the running entry point stands
    idx,            \* how many of program.definitions the running loop has handled
    errors,         \* self.errors of the running checker
    graph_effects,  \* EffectChecker.graph_effects
    type_defs,      \* TypeChecker.type_defs
    graph_sigs,     \* TypeChecker.graph_sigs
    lines,          \* PythonEmitter.lines
    needs,          \* PythonEmitter.needs_functools, needs_dataclasses, needs_callable
    raised,         \* the exception that left the entry point, "none" if none
    tokens,         \* tokens of tokenize, Parser.tokens
    pos,            \* Parser.pos (0-based, as in the source)
    source,         \* the text given to parse, a sequence of characters
    line,           \* line of tokenize
    col,            \* col of tokenize
    caught,         \* what the raised exception carries
    returned        \* what the entry points called so far have returned, in order

vars == <<program, pc, idx, errors, graph_effects, type_defs, graph_sigs,
          lines, needs, raised, tokens, pos, source, line, col, caught, returned>>

emitterVars == <<lines, needs>>
parserVars  == <<tokens, pos, source, line, col, caught>>

Range(s) == { s[i] : i \in DOMAIN s }

\* the empty dict
EmptyDict == [x \in {} |-> {}]

\* d[k] = v of a Python dict
DictSet(d, key, v) == [x \in (DOMAIN d) \cup {key} |-> IF x = key THEN v ELSE d[x]]

(***************************************************************************)
(* ast_nodes.py                                                            *)
(***************************************************************************)
Node(k, name, val, args, pats) ==
    [k |-> k, name |-> name, val |-> val, args |-> args, pats |-> pats]

LitExpr(type_hint, value) == Node("LitExpr", type_hint, value, <<>>, <<>>)
IdentExpr(name)           == Node("IdentExpr", name, 0, <<>>, <<>>)
LetExpr(name, value, body) == Node("LetExpr", name, 0, <<value, body>>, <<>>)
IfExpr(cond, then_, else_) == Node("IfExpr", "", 0, <<cond, then_, else_>>, <<>>)
\* args = <<target>> \o the arm bodies, pats = the arm patterns
MatchExpr(target, patterns, bodies) == Node("MatchExpr", "", 0, <<target>> \o bodies, patterns)
LambdaExpr(params, body)  == Node("LambdaExpr", "", 0, <<body>>, params)
\* args = <<value>> \o steps
PipeExpr(value, steps)    == Node("PipeExpr", "", 0, <<value>> \o steps, <<>>)
DoExpr(exprs)             == Node("DoExpr", "", 0, exprs, <<>>)
OpExpr(op, args)          == Node("OpExpr", op, 0, args, <<>>)
CallExpr(func, args)      == Node("CallExpr", func, 0, args, <<>>)
ListExpr(elems)           == Node("ListExpr", "", 0, elems, <<>>)
RecordExpr(type_name, fnames, fvals) == Node("RecordExpr", type_name, 0, fvals, fnames)
GetExpr(obj, field)       == Node("GetExpr", field, 0, <<obj>>, <<>>)
BuiltinExpr(name, args)   == Node("BuiltinExpr", name, 0, args, <<>>)
SomeExpr(value)           == Node("SomeExpr", "", 0, <<value>>, <<>>)
NoneExpr                  == Node("NoneExpr", "", 0, <<>>, <<>>)
\* args = <<body, catch_body>>
TryExpr(body, catch_var, catch_body) == Node("TryExpr", catch_var, 0, <<body, catch_body>>, <<>>)
ErrorExpr(message)        == Node("ErrorExpr", "", 0, <<message>>, <<>>)
\* args = <<obj, value>>
SetExpr(obj, field, value) == Node("SetExpr", field, 0, <<obj, value>>, <<>>)

\* patterns and lambda parameters: name-carrying records
WildcardPattern           == [k |-> "WildcardPattern", name |-> "", val |-> 0, args |-> <<>>]
LiteralPattern(value)     == [k |-> "LiteralPattern", name |-> "", val |-> value, args |-> <<>>]
IdentPattern(name)        == [k |-> "IdentPattern", name |-> name, val |-> 0, args |-> <<>>]
ConstructorPattern(name, args) == [k |-> "ConstructorPattern", name |-> name, val |-> 0, args |-> args]
Param(name)               == [k |-> "Param", name |-> name, val |-> 0, args |-> <<>>]

\* type expressions: elems are the component types, fields the field names of a record
TypeNode(k, name, elems, fields) == [k |-> k, name |-> name, elems |-> elems, fields |-> fields]
PrimitiveType(name)       == TypeNode("PrimitiveType", name, <<>>, <<>>)
ListType(elem)            == TypeNode("ListType", "", <<elem>>, <<>>)
OptionType(elem)          == TypeNode("OptionType", "", <<elem>>, <<>>)
TupleType(elems)          == TypeNode("TupleType", "", elems, <<>>)
RecordType(fnames, ftypes) == TypeNode("RecordType", "", ftypes, fnames)
FunctionType(param, ret)  == TypeNode("FunctionType", "", <<param, ret>>, <<>>)
\* one Variant node per (vname, vtypes) pair
Variant(vname, vtypes)    == TypeNode("Variant", vname, vtypes, <<>>)
EnumType(variants)        == TypeNode("EnumType", "", variants, <<>>)
NamedType(name)           == TypeNode("NamedType", name, <<>>, <<>>)

\* contract = None is has |-> FALSE
NoContract                == [has |-> FALSE, preconditions |-> <<>>, postconditions |-> <<>>]
Contract(pres, posts)     == [has |-> TRUE, preconditions |-> pres, postconditions |-> posts]
\* inputs: a sequence of [name, type] records
Input(name, type_)        == [name |-> name, type |-> type_]
Graph(name, inputs, output, effects, contract, body) ==
    [k |-> "Graph", name |-> name, inputs |-> inputs, output |-> output,
     effects |-> effects, contract |-> contract, body |-> body]
TypeDef(name, type_expr)  == [k |-> "TypeDef", name |-> name, type_expr |-> type_expr]

T_INT    == PrimitiveType("Int")
T_FLOAT  == PrimitiveType("Float")
T_STRING == PrimitiveType("String")
T_BOOL   == PrimitiveType("Bool")
T_UNIT   == PrimitiveType("Unit")

(***************************************************************************)
(* Expressions the parser can produce, for the inputs of the passes.       *)
(* Wrap(e) puts e in each child position of each compound form.            *)
(***************************************************************************)
Lit1 == LitExpr("int", 1)
LitS == LitExpr("string", 1)
LitT == LitExpr("bool", 1)
LitU == LitExpr("unit", 0)

Wrap(e) ==
    { LetExpr("a", e, IdentExpr("a")), LetExpr("a", Lit1, e),
      IfExpr(e, Lit1, Lit1), IfExpr(LitT, e, Lit1), IfExpr(LitT, Lit1, e),
      MatchExpr(e, <<WildcardPattern>>, <<Lit1>>),
      MatchExpr(IdentExpr("n"), <<LiteralPattern(1), WildcardPattern>>, <<Lit1, e>>),
      LambdaExpr(<<Param("x")>>, e),
      PipeExpr(e, <<>>), PipeExpr(IdentExpr("n"), <<e>>),
      DoExpr(<<e, Lit1>>), DoExpr(<<Lit1, e>>),
      OpExpr("+", <<Lit1, e>>),
      CallExpr("h", <<e>>),
      ListExpr(<<e>>),
      RecordExpr("R", <<Param("fld")>>, <<e>>),
      GetExpr(e, "fld"),
      BuiltinExpr("head", <<e>>),
      SomeExpr(e),
      TryExpr(e, "err", Lit1), TryExpr(Lit1, "err", e),
      ErrorExpr(e) }

RECURSIVE Nest(_, _)
Nest(S, d) == IF d = 0 THEN S ELSE S \cup UNION { Wrap(e) : e \in Nest(S, d - 1) }

(***************************************************************************)
(* effect_checker.py                                                       *)
(***************************************************************************)
IO_BUILTINS   == {"print", "read-line"}
FAIL_BUILTINS == {"error"}

RECURSIVE _collect_effects(_, _)
\* the union of _collect_effects over a sequence of expressions
RECURSIVE CollectAll(_, _)
CollectAll(es, ge) ==
    IF es = <<>> THEN {}
    ELSE _collect_effects(Head(es), ge) \cup CollectAll(Tail(es), ge)

_collect_effects(expr, ge) ==
    CASE expr.k = "CallExpr" ->
            (IF expr.name \in DOMAIN ge THEN ge[expr.name] \ {"pure"} ELSE {})
            \cup CollectAll(expr.args, ge)
      [] expr.k = "BuiltinExpr" ->
            (IF expr.name \in IO_BUILTINS THEN {"io"} ELSE {})
            \cup (IF expr.name \in FAIL_BUILTINS THEN {"fail"} ELSE {})
            \cup CollectAll(expr.args, ge)
      [] expr.k \in {"LetExpr", "IfExpr", "LambdaExpr", "PipeExpr", "DoExpr", "OpExpr",
                     "ListExpr", "RecordExpr", "GetExpr", "TryExpr"} ->
            CollectAll(expr.args, ge)
      [] expr.k = "MatchExpr" -> CollectAll(expr.args, ge)
      [] OTHER -> {}

\* the diagnostic strings, by their parts
PureDiag(gname, effs)    == [pass |-> "effect", graph |-> gname, kind |-> "pure_requires", names |-> effs]
MissingDiag(gname, effs) == [pass |-> "effect", graph |-> gname, kind |-> "uses_missing", names |-> effs]

\* EffectChecker._check_graph: the diagnostics it appends
EffectCheckGraph(graph, ge) ==
    LET declared == Range(graph.effects)
        required == _collect_effects(graph.body, ge)
    IN  IF "pure" \in declared /\ declared = {"pure"}
        THEN IF required \ {"pure"} # {}
             THEN <<PureDiag(graph.name, required \ {"pure"})>>
             ELSE <<>>
        ELSE LET missing == (required \ declared) \ {"pure"}
             IN  IF missing # {} THEN <<MissingDiag(graph.name, missing)>> ELSE <<>>

\* the first loop of EffectChecker.check over definitions[1..n]
RECURSIVE RegisterEffects(_, _)
RegisterEffects(defs, n) ==
    IF n = 0 THEN EmptyDict
    ELSE LET d == RegisterEffects(defs, n - 1)
         IN  IF defs[n].k = "Graph" THEN DictSet(d, defs[n].name, Range(defs[n].effects))
             ELSE d

(***************************************************************************)
(* python_emitter.py: expressions.                                         *)
(* The text _expr returns is kept as the tree of the f-string templates    *)
(* that produced it: a term [k, name, val, args, params] stands for the    *)
(* text of template k filled with the texts of args (and with name, the    *)
(* literal val and the names params).  A call that raises returns the term *)
(* Raise(exception class), which every enclosing template passes on, as    *)
(* the exception propagates.                                               *)
(***************************************************************************)
Term(k, name, val, args, params) ==
    [k |-> k, name |-> name, val |-> val, args |-> args, params |-> params]
Raise(exc) == Term("RAISE", exc, 0, <<>>, <<>>)
IsRaise(t) == t.k = "RAISE"

\* the first exception among the terms, in evaluation order
FirstRaise(ts) ==
    LET I == { i \in DOMAIN ts : IsRaise(ts[i]) }
    IN  ts[CHOOSE i \in I : \A j \in I : i <= j]
AnyRaise(ts) == \E i \in DOMAIN ts : IsRaise(ts[i])

\* template k over the already compiled args
Py(k, name, args) ==
    IF AnyRaise(args) THEN FirstRaise(args) ELSE Term(k, name, 0, args, <<>>)

_ALL_BUILTINS ==
    { "not", "map", "filter", "reduce", "head", "tail",
      "cons", "append", "nth", "range", "empty?",
      "sort-by", "length", "concat", "substr", "split",
      "join", "format", "print", "read-line",
      "some", "none", "some?", "unwrap", "map-opt",
      "or-else", "error", "try", "catch", "set",
      "reverse", "first", "second", "last", "contains",
      "abs", "min", "max", "to-string", "to-int", "to-float",
      "to-lower", "to-upper", "string-length", "char-at",
      "string-starts-with", "string-ends-with", "string-contains",
      "string-replace", "string-trim", "flat-map", "zip",
      "take", "drop", "slice", "index-of", "sum", "product",
      "any", "all", "enumerate", "dict", "keys", "values",
      "has-key", "get-or", "int-to-string",
      "list_get", "list-get", "string_trim", "string_starts_with",
      "string_ends_with", "string_contains", "string_replace",
      "int_to_string", "to_string", "to_lower", "to_upper",
      "empty_q", "some_q", "sort_by", "map_opt", "or_else",
      "read_line", "flat_map" }
_ALL_OPERATORS ==
    { "+", "-", "*", "/", "%", "==", "!=", "<", ">", "<=", ">=", "and", "or", "not" }

\* name.replace('-', '_').replace('?', '_q') on the names of the model that hold - or ?
Replaced(name) ==
    CASE name = "read-line" -> "read_line"   [] name = "empty?" -> "empty_q"
      [] name = "some?" -> "some_q"          [] name = "sort-by" -> "sort_by"
      [] name = "map-opt" -> "map_opt"       [] name = "or-else" -> "or_else"
      [] name = "flat-map" -> "flat_map"     [] name = "to-string" -> "to_string"
      [] name = "is-even" -> "is_even"       [] name = "sum-list" -> "sum_list"
      [] OTHER -> name

PyReserved ==
    { "lambda", "class", "def", "return", "import", "from", "as",
      "if", "else", "elif", "while", "for", "break", "continue",
      "pass", "raise", "try", "except", "finally", "with", "yield",
      "assert", "del", "in", "is", "not", "and", "or", "global",
      "nonlocal", "True", "False", "None", "match", "case", "type" }

\* TLC has no string concatenation: name + '_' on the reserved names of the model
Underscored(name) ==
    CASE name = "match" -> "match_" [] name = "type" -> "type_" [] name = "in" -> "in_"
      [] name = "not" -> "not_"     [] name = "try" -> "try_"   [] name = "is" -> "is_"
      [] OTHER -> "reserved_"

_sanitize_name(name) ==
    LET n1 == Replaced(name) IN IF n1 \in PyReserved THEN Underscored(n1) ELSE n1

\* the '+': '+', ..., '/': '//' table of _op_expr, and py_ops.get(op, op)
py_ops(op) == IF op = "/" THEN "//" ELSE op

\* _lit: the host literal of a literal, by type_hint and value
_lit(expr) == Term("Lit", expr.name, expr.val, <<>>, <<>>)

NameTerm(name) == Term("Name", name, 0, <<>>, <<>>)
NoneTerm == Term("None", "", 0, <<>>, <<>>)

\* a _pattern_condition whose literal test is always true
_pattern_condition_literal_true(pat) ==
    IF pat.k = "ConstructorPattern"
    THEN Term("MtIsInstance", _sanitize_name(pat.name), 0, <<>>, <<>>)
    ELSE Term("True", "", 0, <<>>, <<>>)

\* _pattern_condition(pat, "_mt_")
_pattern_condition(pat) ==
    CASE pat.k = "LiteralPattern" -> Term("MtEquals", "", pat.val, <<>>, <<>>)
      [] pat.k = "ConstructorPattern" -> Term("MtIsInstance", _sanitize_name(pat.name), 0, <<>>, <<>>)
      [] OTHER -> Term("True", "", 0, <<>>, <<>>)

\* the accessor "_mt_.value" (name "value") or "_mt_._i" (name "_i", val i)
MtField(name, i) == Term("MtField", name, i, <<>>, <<>>)

\* _pattern_bindings(pat, "_mt_"): the (name, accessor) pairs
_pattern_bindings(pat) ==
    IF pat.k = "ConstructorPattern"
    THEN LET I == { i \in DOMAIN pat.args : pat.args[i].k = "IdentPattern" }
             \* the j-th smallest index of I
             nth[j \in 1..Cardinality(I)] ==
                 CHOOSE i \in I : Cardinality({ m \in I : m < i }) = j - 1
         IN  [j \in 1..Cardinality(I) |->
                 [name |-> _sanitize_name(pat.args[nth[j]].name),
                  accessor |-> IF Len(pat.args) = 1 THEN MtField("value", 0)
                               ELSE MtField("_i", nth[j] - 1)]]
    ELSE <<>>

\* _build_match_chain(arms, idx), idx 0-based
RECURSIVE _build_match_chain(_, _)
_build_match_chain(arms, i) ==
    IF i >= Len(arms) THEN NoneTerm
    ELSE IF arms[i + 1].kind = "catchall" THEN arms[i + 1].data
    ELSE Term("IfExp", "", 0,
              <<arms[i + 1].body, arms[i + 1].cond, _build_match_chain(arms, i + 1)>>, <<>>)

\* "(lambda names: body)(accessors)": args = <<body>> \o accessors, params = names
BindCall(names, body, accessors) ==
    IF IsRaise(body) THEN body ELSE Term("BindCall", "", 0, <<body>> \o accessors, names)

\* bound_body of _match_expr
BoundBody(bindings, body) ==
    IF bindings = <<>> THEN body
    ELSE BindCall([j \in DOMAIN bindings |-> bindings[j].name], body,
                  [j \in DOMAIN bindings |-> bindings[j].accessor])

\* args[i] of a Python list (0-based): IndexError past the end
At(args, i) == IF i < Len(args) THEN args[i + 1] ELSE Raise("IndexError")

\* [At(args, i) for i in ixs]
Pick(args, ixs) == [j \in DOMAIN ixs |-> At(args, ixs[j])]

\* _order_fn_list_args(raw_args, compiled_args): <<fn, list>>
_order_fn_list_args(raw_args, compiled_args) ==
    IF Len(raw_args) = 2 /\ raw_args[1].k = "LambdaExpr" THEN <<compiled_args[1], compiled_args[2]>>
    ELSE IF Len(raw_args) = 2 /\ raw_args[2].k = "LambdaExpr" THEN <<compiled_args[2], compiled_args[1]>>
    ELSE <<At(compiled_args, 0), At(compiled_args, 1)>>

\* the reduce branch of _builtin_expr: the arguments of functools.reduce, in host order
ReduceArgs(raw, args) ==
    IF Len(raw) = 3
    THEN IF raw[1].k = "LambdaExpr" THEN <<args[1], args[3], args[2]>>
         ELSE IF raw[2].k = "LambdaExpr" THEN <<args[2], args[1], args[3]>>
         ELSE IF raw[3].k = "LambdaExpr" THEN <<args[3], args[1], args[2]>>
         ELSE <<args[1], args[3], args[2]>>
    ELSE IF Len(raw) = 2
    THEN IF raw[1].k = "LambdaExpr" THEN <<args[1], args[2]>> ELSE <<args[2], args[1]>>
    ELSE args

\* the branches of _builtin_expr that fill one template with fixed argument
\* positions: the template and the indices it reads, in the order of the text
FixedRule(name) ==
    CASE name = "not" -> [k |-> "not", ixs |-> <<0>>]
      [] name \in {"head", "first"} -> [k |-> "index0", ixs |-> <<0>>]
      [] name = "tail" -> [k |-> "slice_from1", ixs |-> <<0>>]
      [] name = "cons" -> [k |-> "cons", ixs |-> <<0, 1>>]
      [] name = "append" -> [k |-> "append", ixs |-> <<0, 1>>]
      [] name \in {"nth", "char-at", "char_at", "list-get", "list_get"} ->
            [k |-> "subscript", ixs |-> <<0, 1>>]
      [] name \in {"empty?", "empty_q"} -> [k |-> "len_is_0", ixs |-> <<0>>]
      [] name \in {"sort-by", "sort_by"} -> [k |-> "sorted_key", ixs |-> <<1, 0>>]
      [] name \in {"length", "string-length", "string_length"} -> [k |-> "len", ixs |-> <<0>>]
      [] name = "join" -> [k |-> "join", ixs |-> <<0, 1>>]
      [] name \in {"some", "unwrap"} -> [k |-> "same", ixs |-> <<0>>]
      [] name \in {"some?", "some_q"} -> [k |-> "is_not_none", ixs |-> <<0>>]
      [] name \in {"map-opt", "map_opt"} -> [k |-> "map_opt", ixs |-> <<0, 1, 1>>]
      [] name \in {"or-else", "or_else"} -> [k |-> "or_else", ixs |-> <<0, 0, 1>>]
      [] name = "error" -> [k |-> "throw", ixs |-> <<0>>]
      [] name = "set" -> [k |-> "replace_kw", ixs |-> <<0, 1, 2>>]
      [] name = "reverse" -> [k |-> "reversed", ixs |-> <<0>>]
      [] name = "second" -> [k |-> "index1", ixs |-> <<0>>]
      [] name = "last" -> [k |-> "index_last", ixs |-> <<0>>]
      [] name \in {"contains", "string-contains", "string_contains", "has-key", "has_key"} ->
            [k |-> "in", ixs |-> <<1, 0>>]
      [] name = "abs" -> [k |-> "abs", ixs |-> <<0>>]
      [] name \in {"to-string", "to_string", "int-to-string", "int_to_string"} ->
            [k |-> "str", ixs |-> <<0>>]
      [] name \in {"to-int", "to_int"} -> [k |-> "int", ixs |-> <<0>>]
      [] name \in {"to-float", "to_float"} -> [k |-> "float", ixs |-> <<0>>]
      [] name \in {"to-lower", "to_lower"} -> [k |-> "lower", ixs |-> <<0>>]
      [] name \in {"to-upper", "to_upper"} -> [k |-> "upper", ixs |-> <<0>>]
      [] name \in {"string-starts-with", "string_starts_with"} -> [k |-> "startswith", ixs |-> <<0, 1>>]
      [] name \in {"string-ends-with", "string_ends_with"} -> [k |-> "endswith", ixs |-> <<0, 1>>]
      [] name \in {"string-replace", "string_replace"} -> [k |-> "str_replace", ixs |-> <<0, 1, 2>>]
      [] name \in {"string-trim", "string_trim"} -> [k |-> "strip", ixs |-> <<0>>]
      [] name \in {"flat-map", "flat_map"} -> [k |-> "flat_map", ixs |-> <<1, 0>>]
      [] name = "zip" -> [k |-> "zip", ixs |-> <<0, 1>>]
      [] name = "take" -> [k |-> "take", ixs |-> <<1, 0>>]
      [] name = "drop" -> [k |-> "drop", ixs |-> <<1, 0>>]
      [] name = "slice" -> [k |-> "slice3", ixs |-> <<0, 1, 2>>]
      [] name \in {"index-of", "index_of"} -> [k |-> "index_of", ixs |-> <<0, 1, 1, 0>>]
      [] name = "sum" -> [k |-> "sum", ixs |-> <<0>>]
      [] name = "product" -> [k |-> "functools.reduce_mul", ixs |-> <<0>>]
      [] name = "enumerate" -> [k |-> "enumerate", ixs |-> <<0>>]
      [] name = "keys" -> [k |-> "keys", ixs |-> <<0>>]
      [] name = "values" -> [k |-> "values", ixs |-> <<0>>]
      [] name \in {"get-or", "get_or"} -> [k |-> "dict_get", ixs |-> <<0, 1, 2>>]
      [] OTHER -> [k |-> "", ixs |-> <<>>]

\* the branches of _builtin_expr that look at the number of arguments
VariadicRule(name, raw, args) ==
    LET n == Len(args) IN
    CASE name = "map" -> Py("map", "", _order_fn_list_args(raw, args))
      [] name = "filter" -> Py("filter", "", _order_fn_list_args(raw, args))
      [] name = "reduce" -> Py("functools.reduce", "", ReduceArgs(raw, args))
      [] name = "range" ->
            IF n \in {1, 2} THEN Py("range", "", args) ELSE Py("range", "", Pick(args, <<0, 1, 2>>))
      [] name = "concat" -> Py("concat", "", args)
      [] name = "substr" ->
            IF n = 2 THEN Py("slice_from", "", args) ELSE Py("slice3", "", Pick(args, <<0, 1, 2>>))
      [] name = "split" ->
            IF n >= 2 /\ raw[2].k = "LitExpr" /\ raw[2].name = "string" /\ raw[2].val = 0
            THEN Py("list", "", <<args[1]>>)
            ELSE Py("split", "", Pick(args, <<0, 1>>))
      [] name = "format" ->
            IF n = 1 THEN Py("str", "", args)
            ELSE IF n = 0 THEN Raise("IndexError") ELSE Py("format", "", args)
      [] name = "print" -> Py("print", "", args)
      [] name \in {"read-line", "read_line"} -> Term("input", "", 0, <<>>, <<>>)
      [] name = "none" -> NoneTerm
      [] name \in {"min", "max"} ->
            IF n = 1 THEN Py(name, "", args) ELSE Py(name, "", Pick(args, <<0, 1>>))
      [] name \in {"any", "all"} ->
            \* the f-string of the two-argument form reads the Python name _x_
            IF n > 1 THEN Raise("NameError") ELSE Py(name, "", Pick(args, <<0>>))
      [] name = "dict" -> Py("dict", "", args)
      [] name = "tuple" -> Py("tuple", "", args)

VariadicNames ==
    { "map", "filter", "reduce", "range", "concat", "substr", "split", "format", "print",
      "read-line", "read_line", "none", "min", "max", "any", "all", "dict", "tuple" }

RECURSIVE _expr(_)
RECURSIVE _builtin_expr(_)
RECURSIVE ArmsCode(_, _)
RECURSIVE PipeSteps(_, _, _)

\* [self._expr(a) for a in es]
ExprAll(es) == [i \in DOMAIN es |-> _expr(es[i])]

_builtin_expr(expr) ==
    LET args == ExprAll(expr.args) IN
    IF AnyRaise(args) THEN FirstRaise(args)
    ELSE IF expr.name \in VariadicNames THEN VariadicRule(expr.name, expr.args, args)
    ELSE IF FixedRule(expr.name).k # ""
    THEN Py(FixedRule(expr.name).k, "", Pick(args, FixedRule(expr.name).ixs))
    ELSE Py("Call", _sanitize_name(expr.name), args)

_op_expr(expr) ==
    LET parts == ExprAll(expr.args) IN
    IF Len(expr.args) = 1 /\ expr.name = "-" THEN Py("Neg", "", parts)
    ELSE IF Len(expr.args) = 1 /\ expr.name = "not" THEN Py("Not", "", parts)
    ELSE IF Len(expr.args) = 2 THEN Py("BinOp", py_ops(expr.name), parts)
    ELSE Py("OpChain", py_ops(expr.name), parts)

_call_expr(expr) ==
    IF expr.name \in _ALL_BUILTINS THEN _builtin_expr(BuiltinExpr(expr.name, expr.args))
    ELSE IF expr.name \in _ALL_OPERATORS THEN _op_expr(OpExpr(expr.name, expr.args))
    ELSE Py("Call", _sanitize_name(expr.name), ExprAll(expr.args))

\* the loop of _match_expr over arms[i..]: arms_code, up to the break
ArmsCode(expr, i) ==
    IF i > Len(expr.pats) THEN <<>>
    ELSE LET pat  == expr.pats[i]
             cond == _pattern_condition(pat)
             body == _expr(expr.args[i + 1])
             bound_body == BoundBody(_pattern_bindings(pat), body)
         IN  IF pat.k \in {"WildcardPattern", "IdentPattern"}
             THEN <<[kind |-> "catchall", cond |-> cond, body |-> body,
                     data |-> IF pat.k = "IdentPattern"
                              THEN BindCall(<<_sanitize_name(pat.name)>>, body,
                                            <<NameTerm("_mt_")>>)
                              ELSE bound_body]>>
             ELSE <<[kind |-> "cond", cond |-> cond, body |-> bound_body, data |-> bound_body]>>
                  \o ArmsCode(expr, i + 1)

_match_expr(expr) ==
    LET target    == _expr(expr.args[1])
        arms_code == ArmsCode(expr, 1)
        compiled  == <<target>> \o [i \in DOMAIN arms_code |-> arms_code[i].body]
    IN  IF AnyRaise(compiled) THEN FirstRaise(compiled)
        ELSE IF arms_code = <<>> THEN NoneTerm
        ELSE Term("MatchLambda", "", 0, <<_build_match_chain(arms_code, 0), target>>, <<>>)

\* _apply_pipe_step(step, pipe_val), step a BuiltinExpr or a CallExpr
_apply_pipe_step(step, pipe_val) ==
    IF step.k = "BuiltinExpr"
    THEN CASE step.name = "filter" ->
                Py("filter", "", <<IF step.args # <<>> THEN _expr(step.args[1]) ELSE NoneTerm, pipe_val>>)
           [] step.name = "map" ->
                Py("map", "", <<IF step.args # <<>> THEN _expr(step.args[1]) ELSE NoneTerm, pipe_val>>)
           [] step.name = "reduce" ->
                Py("functools.reduce", "",
                   <<IF step.args # <<>> THEN _expr(step.args[1]) ELSE Raise("IndexError"),
                     pipe_val,
                     IF Len(step.args) > 1 THEN _expr(step.args[2]) ELSE NoneTerm>>)
           [] step.name \in {"sort-by", "sort_by"} ->
                Py("sorted_key", "",
                   <<pipe_val, IF step.args # <<>> THEN _expr(step.args[1]) ELSE Raise("IndexError")>>)
           [] OTHER -> Py("Call", _sanitize_name(step.name), <<pipe_val>> \o ExprAll(step.args))
    ELSE Py("Call", _sanitize_name(step.name), <<pipe_val>> \o ExprAll(step.args))

\* the loop of _pipe_expr over steps[i..], result the text so far
PipeSteps(steps, i, result) ==
    IF i > Len(steps) \/ IsRaise(result) THEN result
    ELSE PipeSteps(steps, i + 1,
            IF steps[i].k \in {"BuiltinExpr", "CallExpr"} THEN _apply_pipe_step(steps[i], result)
            ELSE IF steps[i].k = "LambdaExpr" THEN Py("ApplyParen", "", <<_expr(steps[i]), result>>)
            ELSE Py("Apply", "", <<_expr(steps[i]), result>>))

_pipe_expr(expr) == PipeSteps(Tail(expr.args), 1, _expr(expr.args[1]))

_expr(expr) ==
    CASE expr.k = "LitExpr" -> _lit(expr)
      [] expr.k = "IdentExpr" ->
            IF expr.name = "empty" THEN Term("List", "", 0, <<>>, <<>>)
            ELSE NameTerm(_sanitize_name(expr.name))
      [] expr.k = "LetExpr" -> Py("LetLambda", _sanitize_name(expr.name), ExprAll(expr.args))
      [] expr.k = "IfExpr" ->
            LET c == ExprAll(expr.args)
            IN  IF AnyRaise(c) THEN FirstRaise(c) ELSE Term("IfExp", "", 0, <<c[2], c[1], c[3]>>, <<>>)
      [] expr.k = "MatchExpr" -> _match_expr(expr)
      [] expr.k = "LambdaExpr" ->
            LET body == _expr(expr.args[1])
            IN  IF IsRaise(body) THEN body
                ELSE Term("Lambda", "", 0, <<body>>,
                          [i \in DOMAIN expr.pats |-> _sanitize_name(expr.pats[i].name)])
      [] expr.k = "PipeExpr" -> _pipe_expr(expr)
      [] expr.k = "DoExpr" ->
            IF Len(expr.args) = 1 THEN _expr(expr.args[1]) ELSE Py("TupleLast", "", ExprAll(expr.args))
      [] expr.k = "OpExpr" -> _op_expr(expr)
      [] expr.k = "CallExpr" -> _call_expr(expr)
      [] expr.k = "ListExpr" -> Py("List", "", ExprAll(expr.args))
      [] expr.k = "RecordExpr" ->
            LET vals == ExprAll(expr.args)
            IN  IF AnyRaise(vals) THEN FirstRaise(vals)
                ELSE Term("Construct", _sanitize_name(expr.name), 0, vals,
                          [i \in DOMAIN expr.pats |-> _sanitize_name(expr.pats[i].name)])
      [] expr.k = "GetExpr" -> Py("Attr", _sanitize_name(expr.name), ExprAll(expr.args))
      [] expr.k = "SetExpr" -> Py("Replace", _sanitize_name(expr.name), ExprAll(expr.args))
      [] expr.k = "BuiltinExpr" -> _builtin_expr(expr)
      [] expr.k = "SomeExpr" -> _expr(expr.args[1])
      [] expr.k = "NoneExpr" -> NoneTerm
      [] expr.k = "TryExpr" ->
            LET c == ExprAll(expr.args)
            IN  IF AnyRaise(c) THEN FirstRaise(c) ELSE Term("TryLambda", "", 0, <<c[1]>>, <<>>)
      [] expr.k = "ErrorExpr" -> Py("throw", "", ExprAll(expr.args))
      [] OTHER -> Raise("ValueError")

(***************************************************************************)
(* PythonEmitter: the lines of type definitions and graph functions        *)
(***************************************************************************)
NoTerm == Term("", "", 0, <<>>, <<>>)

\* one entry of PythonEmitter.lines: the indent level of _line, the kind of
\* statement the text is, the name it defines or assigns, and its expression
Line(indent, k, name, e) == [indent |-> indent, k |-> k, name |-> name, e |-> e]
BlankLine == Line(0, "blank", "", NoTerm)

RECURSIVE emit_type_annotation(_)
emit_type_annotation(t) ==
    CASE t.k = "PrimitiveType" ->
            NameTerm(CASE t.name = "Int" -> "int" [] t.name = "Float" -> "float"
                       [] t.name = "String" -> "str" [] t.name = "Bool" -> "bool"
                       [] t.name = "Unit" -> "None")
      [] t.k = "ListType" -> Term("list[]", "", 0, <<emit_type_annotation(t.elems[1])>>, <<>>)
      [] t.k = "OptionType" -> Term("| None", "", 0, <<emit_type_annotation(t.elems[1])>>, <<>>)
      [] t.k = "TupleType" ->
            Term("tuple[]", "", 0, [i \in DOMAIN t.elems |-> emit_type_annotation(t.elems[i])], <<>>)
      [] t.k = "RecordType" -> NameTerm("dict")
      [] t.k = "FunctionType" ->
            Term("Callable", "", 0, [i \in DOMAIN t.elems |-> emit_type_annotation(t.elems[i])], <<>>)
      [] t.k = "EnumType" -> NameTerm("object")
      [] t.k = "NamedType" -> NameTerm(_sanitize_name(t.name))
      [] OTHER -> NameTerm("object")

\* _emit_record_class(name, rt)
_emit_record_class(name, rt) ==
    <<Line(0, "decorator", "dataclass", NoTerm), Line(0, "class", _sanitize_name(name), NoTerm)>>
    \o (IF rt.fields = <<>> THEN <<Line(1, "pass", "", NoTerm)>>
        ELSE [i \in DOMAIN rt.fields |->
                Line(1, "field", _sanitize_name(rt.fields[i]), emit_type_annotation(rt.elems[i]))])

\* f"_{i}" on the indices of the model
UnderscoreIndex(i) == <<"_0", "_1", "_2", "_3", "_4", "_5">>[i + 1]

\* the variant classes of _emit_enum_classes, from variant i on; a class line
\* of a variant holds the base class as its expression
RECURSIVE VariantClasses(_, _, _)
VariantClasses(sname, variants, i) ==
    IF i > Len(variants) THEN <<>>
    ELSE LET vtypes == variants[i].elems IN
         <<Line(0, "decorator", "dataclass", NoTerm),
           Line(0, "class", _sanitize_name(variants[i].name), NameTerm(sname))>>
         \o (IF vtypes = <<>> THEN <<Line(1, "pass", "", NoTerm)>>
             ELSE [j \in DOMAIN vtypes |->
                     Line(1, "field", IF Len(vtypes) > 1 THEN UnderscoreIndex(j - 1) ELSE "value",
                          emit_type_annotation(vtypes[j]))])
         \o <<BlankLine>>
         \o VariantClasses(sname, variants, i + 1)

_emit_enum_classes(name, et) ==
    <<Line(0, "decorator", "dataclass", NoTerm), Line(0, "class", _sanitize_name(name), NoTerm),
      Line(1, "pass", "", NoTerm), BlankLine>>
    \o VariantClasses(_sanitize_name(name), et.elems, 1)

_emit_type_def(td) ==
    IF td.type_expr.k = "RecordType" THEN _emit_record_class(td.name, td.type_expr)
    ELSE IF td.type_expr.k = "EnumType" THEN _emit_enum_classes(td.name, td.type_expr)
    ELSE <<Line(0, "alias", _sanitize_name(td.name), emit_type_annotation(td.type_expr))>>

RECURSIVE _flatten_to_statements(_)
RECURSIVE FlattenAll(_, _)
\* the loop "for e in expr.exprs: result.extend(...)" from es[i] on
FlattenAll(es, i) ==
    IF i > Len(es) THEN <<>> ELSE _flatten_to_statements(es[i]) \o FlattenAll(es, i + 1)

_flatten_to_statements(expr) ==
    IF expr.k = "DoExpr" THEN FlattenAll(expr.args, 1)
    ELSE IF expr.k = "LetExpr" THEN <<expr>> \o _flatten_to_statements(expr.args[2])
    ELSE <<expr>>

_emit_flat_statement(expr) ==
    IF expr.k = "LetExpr" THEN Line(1, "assign", _sanitize_name(expr.name), _expr(expr.args[1]))
    ELSE IF expr.k = "BuiltinExpr" /\ expr.name = "print"
    THEN Line(1, "print", "", Py("print", "", ExprAll(expr.args)))
    ELSE Line(1, "expr", "", _expr(expr))

\* stmts[:-1]
AllButLast(stmts) == IF stmts = <<>> THEN <<>> ELSE SubSeq(stmts, 1, Len(stmts) - 1)

\* the statements of the body up to the last one, then the line of stmts[-1]
\* (IndexError when the flattened body is empty)
BodyLines(body, lastKind) ==
    LET stmts == _flatten_to_statements(body) IN
    [i \in DOMAIN AllButLast(stmts) |-> _emit_flat_statement(stmts[i])]
    \o <<IF stmts = <<>> THEN Line(1, lastKind, "", Raise("IndexError"))
         ELSE Line(1, lastKind, "", _expr(stmts[Len(stmts)]))>>

_emit_body(body) == BodyLines(body, "return")

\* an _emit_body_with_postconditions that returns before it asserts
_emit_body_with_postconditions_return_first(body, postconditions) ==
    BodyLines(body, "result")
    \o <<Line(1, "return_result", "", NoTerm)>>
    \o [i \in DOMAIN postconditions |-> Line(1, "assert_post", "", _expr(postconditions[i]))]

_emit_body_with_postconditions(body, postconditions) ==
    BodyLines(body, "result")
    \o [i \in DOMAIN postconditions |-> Line(1, "assert_post", "", _expr(postconditions[i]))]
    \o <<Line(1, "return_result", "", NoTerm)>>

\* an _emit_graph that asserts the preconditions after the body
_emit_graph_body_first(graph) ==
    <<Line(0, "def", _sanitize_name(graph.name),
           Term("Sig", "", 0,
                <<emit_type_annotation(graph.output)>>
                \o [i \in DOMAIN graph.inputs |-> emit_type_annotation(graph.inputs[i].type)],
                [i \in DOMAIN graph.inputs |-> _sanitize_name(graph.inputs[i].name)]))>>
    \o (IF graph.contract.has /\ graph.contract.postconditions # <<>>
        THEN BodyLines(graph.body, "result")
        ELSE AllButLast(BodyLines(graph.body, "return")))
    \o (IF graph.contract.has
        THEN [i \in DOMAIN graph.contract.preconditions |->
                Line(1, "assert_pre", "", _expr(graph.contract.preconditions[i]))]
        ELSE <<>>)
    \o (IF graph.contract.has /\ graph.contract.postconditions # <<>>
        THEN [i \in DOMAIN graph.contract.postconditions |->
                 Line(1, "assert_post", "", _expr(graph.contract.postconditions[i]))]
             \o <<Line(1, "return_result", "", NoTerm)>>
        ELSE <<BodyLines(graph.body, "return")[Len(BodyLines(graph.body, "return"))]>>)

\* the lines _emit_graph appends when nothing raises; the def line holds the
\* parameter names and, as its expression, the annotations (return type first)
_emit_graph(graph) ==
    <<Line(0, "def", _sanitize_name(graph.name),
           Term("Sig", "", 0,
                <<emit_type_annotation(graph.output)>>
                \o [i \in DOMAIN graph.inputs |-> emit_type_annotation(graph.inputs[i].type)],
                [i \in DOMAIN graph.inputs |-> _sanitize_name(graph.inputs[i].name)]))>>
    \o (IF graph.contract.has
        THEN [i \in DOMAIN graph.contract.preconditions |->
                Line(1, "assert_pre", "", _expr(graph.contract.preconditions[i]))]
        ELSE <<>>)
    \o (IF graph.contract.has /\ graph.contract.postconditions # <<>>
        THEN _emit_body_with_postconditions(graph.body, graph.contract.postconditions)
        ELSE _emit_body(graph.body))

\* an exception leaves _emit_graph at the first line whose expression raises:
\* the lines appended before it, and the exception
RaisingLines(ls) == { i \in DOMAIN ls : IsRaise(ls[i].e) }
FirstRaising(ls) == CHOOSE i \in RaisingLines(ls) : \A j \in RaisingLines(ls) : i <= j
LinesBeforeRaise(ls) == IF RaisingLines(ls) = {} THEN ls ELSE SubSeq(ls, 1, FirstRaising(ls) - 1)
RaisedBy(ls) == IF RaisingLines(ls) = {} THEN "none" ELSE ls[FirstRaising(ls)].e.name

RECURSIVE _scan_expr_imports(_)
_scan_expr_imports(expr) ==
    IF expr.k = "BuiltinExpr" /\ expr.name = "reduce" THEN TRUE
    ELSE IF expr.k \in { "LetExpr", "IfExpr", "MatchExpr", "LambdaExpr", "PipeExpr", "DoExpr",
                         "OpExpr", "CallExpr", "ListExpr", "RecordExpr", "GetExpr",
                         "BuiltinExpr", "TryExpr" }
    THEN \E i \in DOMAIN expr.args : _scan_expr_imports(expr.args[i])
    ELSE FALSE

RECURSIVE _scan_type_imports(_)
_scan_type_imports(t) ==
    IF t.k = "FunctionType" THEN TRUE
    ELSE IF t.k \in { "ListType", "OptionType", "TupleType" }
    THEN \E i \in DOMAIN t.elems : _scan_type_imports(t.elems[i])
    ELSE FALSE

_scan_imports(prog) ==
    [dataclasses |-> \E i \in DOMAIN prog :
                        prog[i].k = "TypeDef" /\ prog[i].type_expr.k \in {"RecordType", "EnumType"},
     functools   |-> \E i \in DOMAIN prog : prog[i].k = "Graph" /\ _scan_expr_imports(prog[i].body),
     callable    |-> \E i \in DOMAIN prog :
                        /\ prog[i].k = "Graph"
                        /\ \/ _scan_type_imports(prog[i].output)
                           \/ \E j \in DOMAIN prog[i].inputs : _scan_type_imports(prog[i].inputs[j].type)]

\* the import lines of emit, and the blank line after them
ImportLines(nd) ==
    LET imports == (IF nd.dataclasses THEN <<Line(0, "import", "dataclass", NoTerm)>> ELSE <<>>)
                   \o (IF nd.functools THEN <<Line(0, "import", "functools", NoTerm)>> ELSE <<>>)
                   \o (IF nd.callable THEN <<Line(0, "import", "Callable", NoTerm)>> ELSE <<>>)
    IN  IF imports # <<>> THEN imports \o <<BlankLine>> ELSE <<>>

\* the "if __name__ == '__main__'" lines of emit
MainLines(prog) ==
    LET M == { i \in DOMAIN prog : prog[i].k = "Graph" /\ prog[i].name = "main" } IN
    IF M = {} THEN <<>>
    ELSE LET main_graph == prog[CHOOSE i \in M : \A j \in M : i <= j] IN
         <<Line(0, "if_main", "", NoTerm),
           Line(1, "expr", "",
                IF ~(main_graph.output.k = "PrimitiveType" /\ main_graph.output.name = "Unit")
                THEN Term("print", "", 0, <<Term("Call", "main", 0, <<>>, <<>>)>>, <<>>)
                ELSE Term("Call", "main", 0, <<>>, <<>>))>>

(***************************************************************************)
(* check_effects(program): EffectChecker(program).check()                  *)
(***************************************************************************)
MaxWrapDepth == 1

EffectAtoms ==
    { Lit1, IdentExpr("n"),
      BuiltinExpr("print", <<LitS>>), BuiltinExpr("read-line", <<>>),
      ErrorExpr(LitS), CallExpr("g", <<>>), CallExpr("h", <<>>) }

EffectDecls == { <<"pure">>, <<"io">>, <<"fail">>, <<"io", "fail">>, <<"pure", "io">> }

EffectPrograms ==
    { <<TypeDef("T", T_INT),
        Graph("f", <<Input("n", T_INT)>>, T_INT, ef, NoContract, b),
        Graph("g", <<>>, T_INT, eg, NoContract, Lit1)>> :
      ef \in EffectDecls, eg \in EffectDecls, b \in Nest(EffectAtoms, MaxWrapDepth) }

\* no exception carries nothing
NoException == [msg |-> "", has_token |-> FALSE]

Idle ==
    /\ type_defs = EmptyDict /\ graph_sigs = EmptyDict /\ graph_effects = EmptyDict
    /\ errors = <<>> /\ lines = <<>> /\ raised = "none" /\ tokens = <<>> /\ pos = 0
    /\ source = <<>> /\ line = 1 /\ col = 1 /\ caught = NoException
    /\ needs = [functools |-> FALSE, dataclasses |-> FALSE, callable |-> FALSE]
    /\ idx = 0
    /\ returned = <<>>

InitEffects ==
    /\ program \in EffectPrograms
    /\ pc = "ec_start"
    /\ Idle

\* EffectChecker.check, first loop: register graph effects
EffectChecker_register ==
    /\ pc = "ec_start"
    /\ graph_effects' = RegisterEffects(program, Len(program))
    /\ idx' = 0
    /\ pc' = "ec_check"
    /\ UNCHANGED <<program, errors, type_defs, graph_sigs, raised, emitterVars, parserVars, returned>>

\* EffectChecker.check, one iteration of the second loop
EffectChecker_check_graph ==
    /\ pc = "ec_check"
    /\ idx < Len(program)
    /\ errors' = errors \o (IF program[idx + 1].k = "Graph"
                             THEN EffectCheckGraph(program[idx + 1], graph_effects)
                             ELSE <<>>)
    /\ idx' = idx + 1
    /\ UNCHANGED <<program, pc, graph_effects, type_defs, graph_sigs, raised, emitterVars, parserVars, returned>>

\* EffectChecker.check: return self.errors
EffectChecker_return ==
    /\ pc = "ec_check"
    /\ idx >= Len(program)
    /\ pc' = "ec_done"
    /\ UNCHANGED <<program, idx, errors, graph_effects, type_defs, graph_sigs, raised, emitterVars, parserVars, returned>>

NextEffects == EffectChecker_register \/ EffectChecker_check_graph \/ EffectChecker_return

SpecEffects == InitEffects /\ [][NextEffects]_vars

\* every expression below e, e included
RECURSIVE SubExprs(_)
SubExprs(e) == {e} \cup UNION { SubExprs(e.args[i]) : i \in DOMAIN e.args }

Graphs(prog) == { prog[i] : i \in { j \in DOMAIN prog : prog[j].k = "Graph" } }

\* an application of print, read-line or error, or a call to a graph that declares io or fail
EffectfulConstruct(e, prog) ==
    \/ e.k = "BuiltinExpr" /\ e.name \in {"print", "read-line", "error"}
    \/ e.k = "ErrorExpr"
    \/ /\ e.k = "CallExpr"
       /\ \E g \in Graphs(prog) : g.name = e.name /\ Range(g.effects) \cap {"io", "fail"} # {}

\* C1: when check_effects has returned, a graph declared exactly {pure} has a
\* diagnostic iff its body contains, at any depth, an application of print,
\* read-line or error, or a call to a graph whose declared effects include io or fail.
C1_PureDiagIffEffectful ==
    pc = "ec_done" =>
        \A g \in Graphs(program) :
            Range(g.effects) = {"pure"} =>
                ((\E i \in DOMAIN errors : errors[i].graph = g.name)
                 <=> (\E e \in SubExprs(g.body) : EffectfulConstruct(e, program)))

\* the effects an expression requires: io of print and read-line, fail of an
\* error raise, and what a called graph declares, pure apart
RequiredEffects(body, prog) ==
    UNION { (IF e.k = "BuiltinExpr" /\ e.name \in {"print", "read-line"} THEN {"io"} ELSE {})
            \cup (IF e.k = "ErrorExpr" \/ (e.k = "BuiltinExpr" /\ e.name = "error") THEN {"fail"} ELSE {})
            \cup (IF e.k = "CallExpr"
                  THEN UNION { Range(g.effects) \ {"pure"} : g \in { h \in Graphs(prog) : h.name = e.name } }
                  ELSE {}) :
            e \in SubExprs(body) }

\* C13: when check_effects has returned, a graph whose declared effect set is
\* not exactly {pure} has exactly one diagnostic, listing the missing effects,
\* when its body requires an effect that is not declared, and none otherwise.
C13_MissingEffectsOneDiag ==
    pc = "ec_done" =>
        \A g \in Graphs(program) :
            Range(g.effects) # {"pure"} =>
                LET missing == RequiredEffects(g.body, program) \ Range(g.effects)
                    diags   == { i \in DOMAIN errors : errors[i].graph = g.name }
                IN  IF missing # {}
                    THEN Cardinality(diags) = 1 /\ \A i \in diags : errors[i].names = missing
                    ELSE diags = {}

(***************************************************************************)
(* contract_checker.py                                                     *)
(***************************************************************************)
RECURSIVE _free_vars(_)
\* the union of _free_vars over a sequence of expressions
RECURSIVE FreeVarsAll(_)
FreeVarsAll(es) ==
    IF es = <<>> THEN {} ELSE _free_vars(Head(es)) \cup FreeVarsAll(Tail(es))

_free_vars(expr) ==
    CASE expr.k = "IdentExpr" -> {expr.name}
      [] expr.k \in {"OpExpr", "BuiltinExpr", "CallExpr"} -> FreeVarsAll(expr.args)
      [] OTHER -> {}

ContractDiag(gname, kind, i, invalid) ==
    [pass |-> "contract", graph |-> gname, kind |-> kind, index |-> i, names |-> invalid]

\* one of the two loops of _check_contract, over conds[i..], with the valid names
RECURSIVE CheckConditions(_, _, _, _, _)
CheckConditions(gname, kind, conds, i, valid) ==
    IF i > Len(conds) THEN <<>>
    ELSE LET invalid == _free_vars(conds[i]) \ valid
         IN  (IF invalid # {} THEN <<ContractDiag(gname, kind, i, invalid)>> ELSE <<>>)
             \o CheckConditions(gname, kind, conds, i + 1, valid)

\* ContractChecker._check_contract: the diagnostics it appends
_check_contract(graph) ==
    LET param_names == { graph.inputs[i].name : i \in DOMAIN graph.inputs }
    IN  CheckConditions(graph.name, "precondition", graph.contract.preconditions, 1, param_names)
        \o CheckConditions(graph.name, "postcondition", graph.contract.postconditions, 1,
                           param_names \cup {"result"})

(***************************************************************************)
(* check_contracts(program): ContractChecker(program).check()              *)
(***************************************************************************)
ContractAtoms ==
    { IdentExpr("n"), IdentExpr("y"), IdentExpr("result"),
      OpExpr(">", <<IdentExpr("n"), Lit1>>), OpExpr(">", <<IdentExpr("y"), Lit1>>),
      OpExpr(">", <<IdentExpr("result"), IdentExpr("n")>>),
      BuiltinExpr("not", <<IdentExpr("y")>>), CallExpr("g", <<IdentExpr("y")>>), LitT }

ContractPrograms ==
    { <<TypeDef("T", T_INT),
        Graph("f", <<Input("n", T_INT)>>, T_INT, <<"pure">>, c, IdentExpr("n")),
        Graph("g", <<Input("y", T_INT)>>, T_INT, <<"pure">>, NoContract, IdentExpr("y"))>> :
      c \in { Contract(<<e>>, <<e>>) : e \in Nest(ContractAtoms, MaxWrapDepth) }
            \cup { Contract(<<LitT, e>>, <<>>) : e \in ContractAtoms }
            \cup { NoContract, Contract(<<>>, <<>>) } }

InitContracts ==
    /\ program \in ContractPrograms
    /\ pc = "cc_check"
    /\ Idle

\* ContractChecker.check: one iteration of the loop over the definitions
ContractChecker_check_graph ==
    /\ pc = "cc_check"
    /\ idx < Len(program)
    /\ errors' = errors \o (IF program[idx + 1].k = "Graph" /\ program[idx + 1].contract.has
                             THEN _check_contract(program[idx + 1])
                             ELSE <<>>)
    /\ idx' = idx + 1
    /\ UNCHANGED <<program, pc, graph_effects, type_defs, graph_sigs, raised, emitterVars, parserVars, returned>>

\* ContractChecker.check: return self.errors
ContractChecker_return ==
    /\ pc = "cc_check"
    /\ idx >= Len(program)
    /\ pc' = "cc_done"
    /\ UNCHANGED <<program, idx, errors, graph_effects, type_defs, graph_sigs, raised, emitterVars, parserVars, returned>>

NextContracts == ContractChecker_check_graph \/ ContractChecker_return

SpecContracts == InitContracts /\ [][NextContracts]_vars

\* the names a pattern binds
RECURSIVE PatternNames(_)
PatternNames(pat) ==
    IF pat.k \in {"IdentPattern", "Param"} THEN {pat.name}
    ELSE UNION { PatternNames(pat.args[i]) : i \in DOMAIN pat.args }

\* the identifiers an expression references that no enclosing let, lambda,
\* match arm or catch clause of the expression binds
RECURSIVE FreeIdents(_)
FreeIdents(e) ==
    CASE e.k = "IdentExpr" -> {e.name}
      [] e.k = "LetExpr" -> FreeIdents(e.args[1]) \cup (FreeIdents(e.args[2]) \ {e.name})
      [] e.k = "LambdaExpr" ->
            FreeIdents(e.args[1]) \ UNION { PatternNames(e.pats[i]) : i \in DOMAIN e.pats }
      [] e.k = "MatchExpr" ->
            FreeIdents(e.args[1])
            \cup UNION { FreeIdents(e.args[i + 1]) \ PatternNames(e.pats[i]) : i \in DOMAIN e.pats }
      [] e.k = "TryExpr" -> FreeIdents(e.args[1]) \cup (FreeIdents(e.args[2]) \ {e.name})
      [] OTHER -> UNION { FreeIdents(e.args[i]) : i \in DOMAIN e.args }

HasDiag(gname, kind, i) ==
    \E j \in DOMAIN errors :
        errors[j].graph = gname /\ errors[j].kind = kind /\ errors[j].index = i

\* C2: when check_contracts has returned, a precondition of a graph has a
\* diagnostic iff it references, at any depth, an identifier that is not an
\* input parameter name, and a postcondition iff it references an identifier
\* that is neither an input parameter name nor `result`.
C2_ContractDiagIffFreeIdent ==
    pc = "cc_done" =>
        \A g \in { h \in Graphs(program) : h.contract.has } :
            LET params == { g.inputs[i].name : i \in DOMAIN g.inputs }
            IN  /\ \A i \in DOMAIN g.contract.preconditions :
                       HasDiag(g.name, "precondition", i)
                       <=> ~(FreeIdents(g.contract.preconditions[i]) \subseteq params)
                /\ \A i \in DOMAIN g.contract.postconditions :
                       HasDiag(g.name, "postcondition", i)
                       <=> ~(FreeIdents(g.contract.postconditions[i])
                               \subseteq params \cup {"result"})

(***************************************************************************)
(* compile_to_python(program): PythonEmitter().emit(program)               *)
(***************************************************************************)
MaxArgs  == 3
MaxConds == 2
MaxArms  == 3

Lit0 == LitExpr("int", 0)
Lam1 == LambdaExpr(<<Param("x")>>, OpExpr("+", <<IdentExpr("x"), Lit1>>))
Lam2 == LambdaExpr(<<Param("a"), Param("b")>>, OpExpr("+", <<IdentExpr("a"), IdentExpr("b")>>))

\* sequences over S of length lo..hi
SeqsUpTo(S, lo, hi) == UNION { [1..k -> S] : k \in lo..hi }

Shape ==
    TypeDef("Shape", EnumType(<<Variant("Red", <<>>), Variant("Circle", <<T_INT>>),
                                Variant("Rect", <<T_INT, T_INT>>)>>))
Point == TypeDef("Point", RecordType(<<"x", "y">>, <<T_INT, T_INT>>))
Unit0 == TypeDef("Empty", RecordType(<<>>, <<>>))
Ints  == TypeDef("Ints", ListType(T_INT))

\* a builtin or a routed call on 0..MaxArgs arguments
BuiltinBodies ==
    { BuiltinExpr(nm, [i \in 1..k |-> IdentExpr("n")]) : nm \in _ALL_BUILTINS, k \in 0..MaxArgs }
    \cup { CallExpr(nm, [i \in 1..k |-> IdentExpr("n")]) :
             nm \in {"head", "any", "g", "+", "not"}, k \in 0..MaxArgs }
    \cup { OpExpr(op, [i \in 1..k |-> IdentExpr("n")]) : op \in {"+", "-", "not"}, k \in 0..MaxArgs }

MiscBodies ==
    Nest({ DoExpr(<<>>), Lit1, BuiltinExpr("head", <<>>) }, MaxWrapDepth)
    \cup { Node("UnknownExpr", "", 0, <<>>, <<>>), SetExpr(IdentExpr("p"), "x", Lit1),
           NoneExpr, IdentExpr("empty"), IdentExpr("match") }

ReduceBodies ==
    { BuiltinExpr("reduce", a) :
        a \in { q \in SeqsUpTo({Lam2, IdentExpr("add"), Lit0, IdentExpr("xs")}, 2, 3) :
                  \A i, j \in DOMAIN q : i # j => q[i] # q[j] } }

PipeStepArgs == SeqsUpTo({Lam1, IdentExpr("f"), Lit0}, 0, 1) \cup { <<Lam1, Lit0>>, <<Lit0, Lam1>> }
PipeStepSet ==
    { BuiltinExpr(nm, a) : nm \in {"filter", "map", "reduce", "sort-by", "map-opt", "take", "length"},
                           a \in PipeStepArgs }
    \cup { CallExpr("g", a) : a \in PipeStepArgs }
    \cup { Lam1, IdentExpr("g") }
PipeBodies ==
    { PipeExpr(IdentExpr("xs"), <<st>>) : st \in PipeStepSet }
    \cup { PipeExpr(IdentExpr("xs"), <<st, BuiltinExpr("filter", <<Lam1>>)>>) : st \in PipeStepSet }

PatSet ==
    { LiteralPattern(1), LiteralPattern(2), WildcardPattern, IdentPattern("k"),
      ConstructorPattern("Red", <<>>), ConstructorPattern("Circle", <<IdentPattern("r")>>),
      ConstructorPattern("Rect", <<IdentPattern("w"), WildcardPattern>>) }
\* arm i has the body 10 + i
MatchBodies ==
    { MatchExpr(IdentExpr("c"), pats, [i \in DOMAIN pats |-> LitExpr("int", 10 + i)]) :
        pats \in SeqsUpTo(PatSet, 0, MaxArms) }

\* matches on c of one or two arms, none a wildcard or a bind, over literals,
\* a variant of Shape and the name Foo that no type definition declares
FailingPatSet ==
    { LiteralPattern(1), ConstructorPattern("Red", <<>>), ConstructorPattern("Foo", <<>>) }
FailingBodies ==
    { MatchExpr(IdentExpr("c"), pats, [i \in DOMAIN pats |-> LitExpr("int", 10 + i)]) :
        pats \in SeqsUpTo(FailingPatSet, 1, 2) }

\* matches on c of one arm, a constructor pattern over a variant of Shape
\* written with as many sub-patterns as the variant has payloads, with fewer
\* and with more
BindingPatSet ==
    { ConstructorPattern("Circle", <<IdentPattern("r")>>),
      ConstructorPattern("Rect", <<IdentPattern("w"), IdentPattern("h")>>),
      ConstructorPattern("Rect", <<WildcardPattern, IdentPattern("h")>>),
      ConstructorPattern("Rect", <<IdentPattern("w")>>),
      ConstructorPattern("Circle", <<IdentPattern("r"), WildcardPattern>>),
      ConstructorPattern("Red", <<IdentPattern("x")>>) }
BindingBodies ==
    { MatchExpr(IdentExpr("c"), <<pat>>, <<LitExpr("int", 11)>>) : pat \in BindingPatSet }

\* (try body (catch e handler)) over a body that raises and bodies that do
\* not, and a handler that is a literal or the caught error
TryBodies ==
    { TryExpr(b, "e", h) : b \in { ErrorExpr(LitS), Lit1, IdentExpr("n") },
                           h \in { Lit0, IdentExpr("e") } }

\* a reduce and a product in the expression positions of a body
ReduceCall == BuiltinExpr("reduce", <<Lam2, Lit0, IdentExpr("xs")>>)
ImportBodies ==
    { SomeExpr(r) : r \in { ReduceCall, BuiltinExpr("product", <<IdentExpr("xs")>>) } }
    \cup { ErrorExpr(ReduceCall), ListExpr(<<ReduceCall>>), BuiltinExpr("abs", <<ReduceCall>>),
           CallExpr("g", <<ReduceCall>>), CallExpr("reduce", <<Lam2, Lit0, IdentExpr("xs")>>),
           LetExpr("a", ReduceCall, IdentExpr("a")), IfExpr(LitT, Lit1, ReduceCall),
           OpExpr("+", <<Lit1, ReduceCall>>), LambdaExpr(<<>>, ReduceCall),
           TryExpr(ReduceCall, "e", Lit0), TryExpr(Lit0, "e", ReduceCall),
           MatchExpr(IdentExpr("n"), <<WildcardPattern>>, <<ReduceCall>>),
           DoExpr(<<ReduceCall, Lit1>>), GetExpr(ReduceCall, "x"),
           PipeExpr(IdentExpr("xs"), <<BuiltinExpr("product", <<>>)>>) }

CondSet == { OpExpr(">", <<IdentExpr("n"), Lit0>>), OpExpr("<", <<IdentExpr("n"), Lit1>>) }
PostSet == { OpExpr(">", <<IdentExpr("result"), Lit0>>), OpExpr("<", <<IdentExpr("result"), Lit1>>) }
ContractSet ==
    { NoContract }
    \cup { Contract(pres, posts) : pres \in SeqsUpTo(CondSet, 0, MaxConds),
                                   posts \in SeqsUpTo(PostSet, 0, MaxConds) }
    \cup { Contract(<<BuiltinExpr("not", <<>>)>>, <<>>), Contract(<<>>, <<BuiltinExpr("not", <<>>)>>) }
StmtBodies ==
    { IdentExpr("n"), LetExpr("a", Lit1, IdentExpr("a")),
      DoExpr(<<BuiltinExpr("print", <<LitS>>), IdentExpr("n")>>),
      LetExpr("a", Lit1, DoExpr(<<BuiltinExpr("print", <<IdentExpr("a")>>),
                                  OpExpr("+", <<IdentExpr("a"), IdentExpr("n")>>)>>)),
      DoExpr(<<LetExpr("a", Lit1, LitU), IdentExpr("a")>>),
      LetExpr("a", Lit1, LetExpr("b", IdentExpr("a"), DoExpr(<<IdentExpr("g"), IdentExpr("b")>>))),
      LetExpr("a", Lit1, DoExpr(<<>>)), DoExpr(<<>>),
      LetExpr("a", BuiltinExpr("head", <<>>), IdentExpr("a")),
      IfExpr(LitT, DoExpr(<<Lit1, Lit0>>), Lit1) }

\* the (type definition, contract, body) cases the emitter is run on
EmitCases ==
    { <<Shape, NoContract, b>> : b \in BuiltinBodies \cup MiscBodies \cup MatchBodies \cup FailingBodies
                                      \cup BindingBodies \cup TryBodies }
    \cup { <<Ints, NoContract, b>> : b \in ReduceBodies \cup PipeBodies \cup ImportBodies }
    \cup { <<td, c, b>> : td \in {Point, Unit0}, c \in ContractSet, b \in StmtBodies }

MainGraph(out) == Graph("main", <<>>, out, <<"io">>, NoContract, BuiltinExpr("print", <<LitS>>))

EmitPrograms ==
    { <<cs[1],
        Graph("f", <<Input("n", T_INT), Input("xs", ListType(T_INT)), Input("c", NamedType("Shape"))>>,
              T_INT, <<"pure">>, cs[2], cs[3])>> \o tl :
      cs \in EmitCases,
      tl \in { <<>>, <<MainGraph(T_UNIT)>>,
               <<Graph("h", <<Input("k", FunctionType(T_INT, T_INT))>>, T_INT, <<"pure">>,
                       NoContract, IdentExpr("k")), MainGraph(T_INT)>> } }

\* an emitter whose lines and flags are shared by all the emitters made
PythonEmitter_shared == [lines |-> lines, needs |-> needs]

\* PythonEmitter(): the attributes __init__ sets
PythonEmitter ==
    [lines |-> <<>>, needs |-> [functools |-> FALSE, dataclasses |-> FALSE, callable |-> FALSE]]

\* two type definitions and two graphs in every order
OrderDefs ==
    { Point, Ints,
      Graph("f", <<Input("n", T_INT)>>, T_INT, <<"pure">>, NoContract, IdentExpr("n")),
      Graph("g", <<Input("p", NamedType("Point"))>>, NamedType("Ints"), <<"pure">>, NoContract,
            ListExpr(<<GetExpr(IdentExpr("p"), "x")>>)) }
OrderPrograms ==
    { q \in [1..Cardinality(OrderDefs) -> OrderDefs] : \A i, j \in DOMAIN q : i # j => q[i] # q[j] }

InitEmit ==
    /\ program \in EmitPrograms \cup OrderPrograms
    /\ pc = "em_start"
    /\ Idle

\* some template of the term is a functools.reduce written by a reduce branch
RECURSIVE UsesReduce(_)
UsesReduce(t) == t.k \in {"functools.reduce", "functools.reduce_mul"} \/ \E i \in DOMAIN t.args : UsesReduce(t.args[i])

\* emit: _scan_imports and the import lines
Emitter_scan_imports ==
    /\ pc = "em_start"
    /\ needs' = _scan_imports(program)
    /\ lines' = lines \o ImportLines(_scan_imports(program))
    /\ idx' = 0
    /\ pc' = "em_types"
    /\ UNCHANGED <<program, errors, graph_effects, type_defs, graph_sigs, raised, parserVars, returned>>

\* an emit that puts the lines of a type definition before the lines it has
Emitter_emit_type_def_prepending ==
    /\ pc = "em_types"
    /\ idx < Len(program)
    /\ lines' = IF program[idx + 1].k = "TypeDef"
                THEN _emit_type_def(program[idx + 1]) \o <<BlankLine>> \o lines
                ELSE lines
    /\ idx' = idx + 1
    /\ UNCHANGED <<program, pc, needs, errors, graph_effects, type_defs, graph_sigs, raised, parserVars, returned>>

\* emit, first loop, one definition: _emit_type_def and a blank line
Emitter_emit_type_def ==
    /\ pc = "em_types"
    /\ idx < Len(program)
    /\ lines' = IF program[idx + 1].k = "TypeDef"
                THEN lines \o _emit_type_def(program[idx + 1]) \o <<BlankLine>>
                ELSE lines
    /\ idx' = idx + 1
    /\ UNCHANGED <<program, pc, needs, errors, graph_effects, type_defs, graph_sigs, raised, parserVars, returned>>

Emitter_type_defs_done ==
    /\ pc = "em_types"
    /\ idx >= Len(program)
    /\ idx' = 0
    /\ pc' = "em_graphs"
    /\ UNCHANGED <<program, emitterVars, errors, graph_effects, type_defs, graph_sigs, raised, parserVars, returned>>

\* a call node turned into the builtin or operator node _call_expr routes it to
RECURSIVE RoutedInPlace(_)
RoutedInPlace(e) ==
    [e EXCEPT !.k = IF e.k = "CallExpr" /\ e.name \in _ALL_BUILTINS THEN "BuiltinExpr"
                    ELSE IF e.k = "CallExpr" /\ e.name \in _ALL_OPERATORS THEN "OpExpr"
                    ELSE @,
              !.args = [i \in DOMAIN e.args |-> RoutedInPlace(e.args[i])]]

\* an emit whose _call_expr changes the node it is given instead of making a new one
Emitter_emit_graph_routing_in_place ==
    /\ pc = "em_graphs"
    /\ idx < Len(program)
    /\ IF program[idx + 1].k = "Graph"
       THEN LET ls == _emit_graph(program[idx + 1]) IN
            /\ lines' = lines \o LinesBeforeRaise(ls)
                              \o (IF RaisedBy(ls) = "none" THEN <<BlankLine>> ELSE <<>>)
            /\ raised' = RaisedBy(ls)
            /\ pc' = IF RaisedBy(ls) = "none" THEN pc ELSE "em_raised"
            /\ needs' = [needs EXCEPT !.functools =
                            @ \/ \E i \in DOMAIN LinesBeforeRaise(ls) : UsesReduce(ls[i].e)]
            /\ program' = [program EXCEPT ![idx + 1].body = RoutedInPlace(@)]
       ELSE UNCHANGED <<lines, raised, pc, needs, program>>
    /\ idx' = idx + 1
    /\ UNCHANGED <<errors, graph_effects, type_defs, graph_sigs, parserVars, returned>>

\* emit, second loop, one definition: _emit_graph and a blank line, or the
\* exception that leaves emit
Emitter_emit_graph ==
    /\ pc = "em_graphs"
    /\ idx < Len(program)
    /\ IF program[idx + 1].k = "Graph"
       THEN LET ls == _emit_graph(program[idx + 1]) IN
            /\ lines' = lines \o LinesBeforeRaise(ls)
                              \o (IF RaisedBy(ls) = "none" THEN <<BlankLine>> ELSE <<>>)
            /\ raised' = RaisedBy(ls)
            /\ pc' = IF RaisedBy(ls) = "none" THEN pc ELSE "em_raised"
            /\ needs' = [needs EXCEPT !.functools =
                            @ \/ \E i \in DOMAIN LinesBeforeRaise(ls) : UsesReduce(ls[i].e)]
       ELSE UNCHANGED <<lines, raised, pc, needs>>
    /\ idx' = idx + 1
    /\ UNCHANGED <<program, errors, graph_effects, type_defs, graph_sigs, parserVars, returned>>

\* emit: the call of main, and the return of the text
Emitter_return ==
    /\ pc = "em_graphs"
    /\ idx >= Len(program)
    /\ lines' = lines \o MainLines(program)
    /\ pc' = "em_done"
    /\ UNCHANGED <<program, idx, needs, errors, graph_effects, type_defs, graph_sigs, raised, parserVars, returned>>

NextEmit ==
    \/ Emitter_scan_imports
    \/ Emitter_emit_type_def
    \/ Emitter_type_defs_done
    \/ Emitter_emit_graph
    \/ Emitter_return

SpecEmit == InitEmit /\ [][NextEmit]_vars

\* the lines of the output at which the text of a definition starts: its def
\* line, or its class or alias line
EmittedAt(d) ==
    { i \in DOMAIN lines :
        /\ lines[i].indent = 0
        /\ lines[i].name = _sanitize_name(d.name)
        /\ lines[i].k \in (IF d.k = "Graph" THEN {"def"} ELSE {"class", "alias"}) }

\* the text of definition i is there and all of it precedes the text of definition j
Precedes(i, j) ==
    /\ EmittedAt(program[i]) # {} /\ EmittedAt(program[j]) # {}
    /\ \A a \in EmittedAt(program[i]), b \in EmittedAt(program[j]) : a < b

\* C14, as the claim states it: in the text compile_to_python returns, the text
\* of a definition precedes the text of every definition after it in the
\* program, whatever their kinds.
C14_EmittedInProgramOrder ==
    pc = "em_done" => \A i, j \in DOMAIN program : i < j => Precedes(i, j)

\* C14, amended: the type definitions are emitted first and the graphs after
\* them, each kind in the order of the program: the text of a definition
\* precedes the text of another iff it is a type definition and the other a
\* graph, or they are of one kind and it stands first in the program.
C14_EmittedByKindThenOrder ==
    pc = "em_done" =>
        \A i, j \in DOMAIN program :
            i # j =>
                (Precedes(i, j)
                 <=> \/ program[i].k = "TypeDef" /\ program[j].k = "Graph"
                     \/ program[i].k = program[j].k /\ i < j)

\* a compiled program in which a graph stands before two type definitions
C14_Witness ==
    /\ pc = "em_done"
    /\ program[1].k = "Graph"
    /\ \E i, j \in DOMAIN program : i < j /\ program[i].k = "TypeDef" /\ program[j].k = "TypeDef"

\* the expression nodes of a definition list that _expr has no branch for
ExprKinds ==
    { "LitExpr", "IdentExpr", "LetExpr", "IfExpr", "MatchExpr", "LambdaExpr", "PipeExpr",
      "DoExpr", "OpExpr", "CallExpr", "ListExpr", "RecordExpr", "GetExpr", "SetExpr",
      "BuiltinExpr", "SomeExpr", "NoneExpr", "TryExpr", "ErrorExpr" }

HasUnknownNode(prog) ==
    \E g \in Graphs(prog) : \E e \in SubExprs(g.body) : e.k \notin ExprKinds

\* C3: compile_to_python raises for no program but one that holds an
\* expression node of a variant the emitter does not recognise, and then it
\* raises the ValueError of _expr.
C3_CompileRaisesOnlyOnUnknownNode ==
    raised # "none" => (raised = "ValueError" /\ HasUnknownNode(program))

\* the lines of the function emitted for graph g: from the line after its def
\* line up to the blank line that ends it
FnLines(g) ==
    LET d == CHOOSE i \in DOMAIN lines : lines[i].k = "def" /\ lines[i].name = _sanitize_name(g.name)
        e == CHOOSE j \in DOMAIN lines :
                /\ j > d /\ lines[j].k = "blank"
                /\ \A m \in DOMAIN lines : (m > d /\ lines[m].k = "blank") => j <= m
    IN  SubSeq(lines, d + 1, e - 1)

\* the expression of the last line of the function emitted for g
BodyTerm(g) == FnLines(g)[Len(FnLines(g))].e

\* C6: for a reduce of three arguments of which exactly one is a lambda,
\* written in the order (fn, init, coll), (coll, fn, init) or (fn, coll, init),
\* the emitted fold applies the lambda over the collection from the initial
\* value: functools.reduce(fn, coll, init) in each of the three orders.
C6_ReduceOrdersFoldAlike ==
    pc = "em_done" =>
        \A g \in Graphs(program) :
            (/\ g.body.k = "BuiltinExpr" /\ g.body.name = "reduce"
             /\ g.body.args \in { <<Lam2, Lit0, IdentExpr("xs")>>, <<IdentExpr("xs"), Lam2, Lit0>>,
                                  <<Lam2, IdentExpr("xs"), Lit0>> })
            => BodyTerm(g) = Term("functools.reduce", "", 0,
                                  <<_expr(Lam2), _expr(IdentExpr("xs")), _expr(Lit0)>>, <<>>)

\* C7: for a pipe step that is a builtin (other than reduce and sort-by, whose
\* text is not in argument order) or a call, written with one argument: when
\* the argument is a lambda the lambda keeps the first position and the
\* threaded value takes the other one; otherwise the threaded value is the
\* first argument and the written argument follows it.
C7_PipeThreadsAroundLambda ==
    pc = "em_done" =>
        \A g \in Graphs(program) :
            (/\ g.body.k = "PipeExpr" /\ Len(g.body.args) = 2
             /\ g.body.args[2].k \in {"BuiltinExpr", "CallExpr"}
             /\ g.body.args[2].name \notin {"reduce", "sort-by", "sort_by"}
             /\ Len(g.body.args[2].args) = 1)
            => LET written == _expr(g.body.args[2].args[1])
                   value   == _expr(g.body.args[1])
               IN  BodyTerm(g).args = IF g.body.args[2].args[1].k = "LambdaExpr"
                                      THEN <<written, value>> ELSE <<value, written>>

\* args with x as its p-th element, p in 1..Len(args) + 1
InsertAt(args, p, x) == SubSeq(args, 1, p - 1) \o <<x>> \o SubSeq(args, p, Len(args))

\* C28: a name of _ALL_BUILTINS lowers to the same text however it is
\* written: a call (call name args) lowers as the direct application
\* (name args), and a pipe whose one step is the builtin lowers as the direct
\* application of the builtin to the step's arguments with the threaded value
\* inserted at some position; a call of a name outside the table (and no
\* operator) lowers to a call of the graph of that name.
C28_BuiltinsLowerAlike ==
    pc = "em_done" =>
        \A g \in Graphs(program) :
            /\ (g.body.k = "CallExpr" /\ g.body.name \in _ALL_BUILTINS)
               => BodyTerm(g) = _expr(BuiltinExpr(g.body.name, g.body.args))
            /\ (g.body.k = "CallExpr" /\ g.body.name \notin _ALL_BUILTINS \cup _ALL_OPERATORS)
               => BodyTerm(g) = Term("Call", _sanitize_name(g.body.name), 0, ExprAll(g.body.args), <<>>)
            /\ (/\ g.body.k = "PipeExpr" /\ Len(g.body.args) = 2
                /\ g.body.args[2].k = "BuiltinExpr" /\ g.body.args[2].name \in _ALL_BUILTINS)
               => \E p \in 1..(Len(g.body.args[2].args) + 1) :
                     BodyTerm(g) = _expr(BuiltinExpr(g.body.args[2].name,
                                                     InsertAt(g.body.args[2].args, p, g.body.args[1])))

\* the outcome of evaluating a host text or a source expression: a value, or
\* a raised error
Yields(v) == [raises |-> FALSE, v |-> v]
Throws(msg) == [raises |-> TRUE, v |-> [t |-> "error", n |-> msg, cls |-> "RuntimeError"]]

\* the outcome of the text written by _try_expr, _error_expr and _lit, the
\* name n bound to the integer n: the two lambdas of _try_expr call the body
\* and nothing else, and "x if True else None" is x
PyOutcome(t, n) ==
    LET body == IF t.k = "TryLambda" THEN t.args[1] ELSE t IN
    CASE body.k = "throw" -> Throws(body.args[1].val)
      [] body.k = "Lit" -> Yields([t |-> "int", n |-> body.val, cls |-> ""])
      [] body.k = "Name" /\ body.name = "n" -> Yields([t |-> "int", n |-> n, cls |-> ""])
      [] OTHER -> Yields([t |-> "none", n |-> 0, cls |-> ""])

\* the outcome of a source expression, the names of env bound
RECURSIVE Outcome(_, _)
Outcome(e, env) ==
    CASE e.k = "ErrorExpr" -> Throws(e.args[1].val)
      [] e.k = "LitExpr" -> Yields([t |-> "int", n |-> e.val, cls |-> ""])
      [] e.k = "IdentExpr" -> Yields(env[e.name])
      [] e.k = "TryExpr" ->
            LET b == Outcome(e.args[1], env) IN
            IF b.raises THEN Outcome(e.args[2], [x \in DOMAIN env \cup {e.name} |->
                                                   IF x = e.name THEN b.v ELSE env[x]])
            ELSE b

\* C29: the text emitted for (try body (catch e handler)) evaluates to the
\* value of handler, e bound to the raised error, when evaluating body
\* raises, and to the value of body when it does not; it raises only when
\* the handler does.
C29_TryCatches ==
    pc = "em_done" =>
        \A g \in Graphs(program) :
            g.body \in TryBodies =>
                \A n \in 0..1 :
                    PyOutcome(BodyTerm(g), n)
                        = Outcome(g.body, [x \in {"n"} |-> [t |-> "int", n |-> n, cls |-> ""]])

\* the emitted lines before the first def line
LinesBeforeDefs ==
    { i \in DOMAIN lines : \A j \in DOMAIN lines : lines[j].k = "def" => i < j }

\* C30: whenever a line of the emitted text holds a functools.reduce (the
\* lowering of reduce or product, in whatever expression position), the text
\* holds the line "import functools" before its first def line; and the
\* import flags do not change once _scan_imports has set them, so they are
\* final when the import lines are written.
C30_FunctoolsImported ==
    /\ [](pc = "em_done" =>
             ((\E i \in DOMAIN lines : UsesReduce(lines[i].e))
              => \E i \in LinesBeforeDefs : lines[i].k = "import" /\ lines[i].name = "functools"))
    /\ [][(pc \in {"em_types", "em_graphs"}) => (needs' = needs)]_vars

\* host values: integers, instances of a variant class, None
IntV(n)   == [t |-> "int", n |-> n, cls |-> ""]
ObjV(cls) == [t |-> "obj", n |-> 0, cls |-> cls]
NoneV     == [t |-> "none", n |-> 0, cls |-> ""]
MatchValues == { IntV(1), IntV(2), IntV(3), ObjV("Red"), ObjV("Circle"), ObjV("Rect") }

\* the truth of a condition written by _pattern_condition, _mt_ bound to mt
PyTruth(cond, mt) ==
    CASE cond.k = "MtEquals" -> mt.t = "int" /\ mt.n = cond.val
      [] cond.k = "MtIsInstance" -> mt.t = "obj" /\ mt.cls = cond.name
      [] cond.k = "True" -> TRUE

\* the value of the text written by _match_expr and _build_match_chain, the
\* name c bound to c and _mt_ to mt
RECURSIVE PyEval(_, _, _)
PyEval(t, c, mt) ==
    CASE t.k = "MatchLambda" -> PyEval(t.args[1], c, PyEval(t.args[2], c, mt))
      [] t.k = "IfExp" ->
            IF PyTruth(t.args[2], mt) THEN PyEval(t.args[1], c, mt) ELSE PyEval(t.args[3], c, mt)
      [] t.k = "BindCall" -> PyEval(t.args[1], c, mt)
      [] t.k = "Lit" -> IntV(t.val)
      [] t.k = "Name" -> IF t.name = "c" THEN c ELSE IF t.name = "_mt_" THEN mt ELSE NoneV
      [] OTHER -> NoneV

\* the literals written in a text
RECURSIVE TermLits(_)
TermLits(t) == (IF t.k = "Lit" THEN {t.val} ELSE {}) \cup UNION { TermLits(t.args[i]) : i \in DOMAIN t.args }

\* a pattern matches a value: a literal the equal value, a constructor the
\* instances of its variant, a wildcard or a bind every value
Matches(pat, v) ==
    CASE pat.k = "LiteralPattern" -> v.t = "int" /\ v.n = pat.val
      [] pat.k = "ConstructorPattern" -> v.t = "obj" /\ v.cls = pat.name
      [] OTHER -> TRUE

Least(S) == CHOOSE i \in S : \A j \in S : i <= j

\* C8: the text emitted for a match on the input c whose arm bodies are
\* different literals evaluates, on every value of c, to the body of the first
\* arm in declared order whose pattern matches the value (None when no arm
\* matches); a wildcard or bind arm matches every value, and the body of no
\* arm written after the first wildcard or bind arm is in the text.
C8_MatchFirstArmWins ==
    pc = "em_done" =>
        \A g \in Graphs(program) :
            g.body \in MatchBodies =>
                LET pats == g.body.pats
                    C == { i \in DOMAIN pats : pats[i].k \in {"WildcardPattern", "IdentPattern"} }
                IN  /\ \A v \in MatchValues :
                          LET M == { i \in DOMAIN pats : Matches(pats[i], v) }
                          IN  /\ C \subseteq M
                              /\ PyEval(BodyTerm(g), v, NoneV) =
                                     IF M = {} THEN NoneV ELSE IntV(g.body.args[Least(M) + 1].val)
                    /\ C # {} => \A i \in DOMAIN pats :
                                    i > Least(C) => g.body.args[i + 1].val \notin TermLits(BodyTerm(g))

\* a match of three arms, the second a wildcard or bind arm, after a literal
\* or constructor arm, has been emitted
C8_Witness ==
    /\ pc = "em_done"
    /\ \E g \in Graphs(program) :
          /\ g.body \in MatchBodies /\ Len(g.body.pats) = 3
          /\ g.body.pats[1].k \in {"LiteralPattern", "ConstructorPattern"}
          /\ g.body.pats[2].k \in {"WildcardPattern", "IdentPattern"}
          /\ TermLits(BodyTerm(g)) = {11, 12}

\* the classes the emitted lines define
EmittedClasses == { lines[i].name : i \in { j \in DOMAIN lines : lines[j].k = "class" } }

\* evaluating the text written by _match_expr and _build_match_chain raises:
\* a conditional evaluates its test first and then one branch only, and the
\* test isinstance(_mt_, X) raises NameError when no line defines X
RECURSIVE PyRaises(_, _, _)
PyRaises(t, c, mt) ==
    CASE t.k = "MatchLambda" ->
            PyRaises(t.args[2], c, mt) \/ PyRaises(t.args[1], c, PyEval(t.args[2], c, mt))
      [] t.k = "IfExp" ->
            \/ t.args[2].k = "MtIsInstance" /\ t.args[2].name \notin EmittedClasses
            \/ IF PyTruth(t.args[2], mt) THEN PyRaises(t.args[1], c, mt)
                                         ELSE PyRaises(t.args[3], c, mt)
      [] t.k = "BindCall" -> PyRaises(t.args[1], c, mt)
      [] OTHER -> FALSE

\* C25: the text emitted for a match on the input c evaluates, on every value
\* of c that no arm matches, to None, and evaluating it raises no error; this
\* covers the match with no arms and the match whose arms are all literal or
\* constructor arms.
C25_NoMatchIsNone ==
    pc = "em_done" =>
        \A g \in Graphs(program) :
            g.body \in MatchBodies \cup FailingBodies =>
                \A v \in MatchValues :
                    (\A i \in DOMAIN g.body.pats : ~Matches(g.body.pats[i], v))
                    => /\ ~PyRaises(BodyTerm(g), v, NoneV)
                       /\ PyEval(BodyTerm(g), v, NoneV) = NoneV

\* the names of the variants of the enums a program declares
DeclaredVariants(prog) ==
    UNION { { prog[i].type_expr.elems[j].name : j \in DOMAIN prog[i].type_expr.elems } :
            i \in { m \in DOMAIN prog : prog[m].k = "TypeDef" /\ prog[m].type_expr.k = "EnumType" } }

\* the field names of an emitted class, in the order of their lines
ClassFields(cls) ==
    LET d == CHOOSE i \in DOMAIN lines : lines[i].k = "class" /\ lines[i].name = cls
        n == Cardinality({ j \in DOMAIN lines :
                             j > d /\ \A m \in (d + 1)..j : lines[m].k = "field" })
    IN  [j \in 1..n |-> lines[d + j].name]

\* the text of arm i (from 1) of a chain written by _build_match_chain
RECURSIVE ChainArm(_, _)
ChainArm(t, i) ==
    IF t.k # "IfExp" THEN t ELSE IF i = 1 THEN t.args[1] ELSE ChainArm(t.args[3], i - 1)

\* the attribute an accessor reads
AccessorField(t) == IF t.name = "value" THEN "value" ELSE UnderscoreIndex(t.val)

\* C26: in the text emitted for a match, for every arm whose pattern is a
\* constructor pattern over a declared variant and holds identifier
\* sub-patterns, the arm body is called with one accessor per identifier, in
\* order, and the accessor of the identifier at payload position i reads the
\* field the class of the variant holds for payload i: the field exists.
C26_BindingsReadVariantFields ==
    pc = "em_done" =>
        \A g \in Graphs(program) :
            g.body \in MatchBodies \cup BindingBodies =>
                \A a \in DOMAIN g.body.pats :
                    LET pat == g.body.pats[a]
                        I   == { i \in DOMAIN pat.args : pat.args[i].k = "IdentPattern" }
                        arm == ChainArm(BodyTerm(g).args[1], a)
                    IN  (/\ \A b \in 1..a : g.body.pats[b].k \notin {"WildcardPattern", "IdentPattern"}
                         /\ pat.k = "ConstructorPattern"
                         /\ pat.name \in DeclaredVariants(program)
                         /\ I # {})
                        => /\ arm.k = "BindCall"
                           /\ Len(arm.params) = Cardinality(I)
                           /\ \A j \in DOMAIN arm.params :
                                 LET i == CHOOSE i \in I : Cardinality({ m \in I : m < i }) = j - 1
                                 IN  /\ arm.params[j] = _sanitize_name(pat.args[i].name)
                                     /\ i \in DOMAIN ClassFields(_sanitize_name(pat.name))
                                     /\ AccessorField(arm.args[j + 1])
                                            = ClassFields(_sanitize_name(pat.name))[i]

Preconditions(g)  == IF g.contract.has THEN g.contract.preconditions ELSE <<>>
Postconditions(g) == IF g.contract.has THEN g.contract.postconditions ELSE <<>>
BodyKinds == { "assign", "print", "expr", "result", "return", "return_result" }

\* the number of lets on the chain of a body: the lets reached from the body
\* through the elements of do-blocks and the bodies of lets
RECURSIVE LetsOnChain(_)
RECURSIVE LetsOnChainAll(_, _)
LetsOnChainAll(es, i) ==
    IF i > Len(es) THEN 0 ELSE LetsOnChain(es[i]) + LetsOnChainAll(es, i + 1)
LetsOnChain(e) ==
    IF e.k = "DoExpr" THEN LetsOnChainAll(e.args, 1)
    ELSE IF e.k = "LetExpr" THEN 1 + LetsOnChain(e.args[2])
    ELSE 0

\* C27: for every graph body the list _flatten_to_statements gives is not
\* empty and its last element is neither a let nor a do-block; once the text
\* is emitted, the function holds one line per element of the list, in the
\* order of the list: one assignment per let on the chain of the body, a
\* statement for every other element but the last, and the last element as
\* the value returned or bound to result.
C27_FlattenedBodyEndsInTail ==
    \A g \in Graphs(program) :
        LET stmts == _flatten_to_statements(g.body) IN
        /\ stmts # <<>>
        /\ stmts[Len(stmts)].k \notin {"LetExpr", "DoExpr"}
        /\ pc = "em_done" =>
              LET fl == FnLines(g)
                  B  == { i \in DOMAIN fl : fl[i].k \in BodyKinds \ {"return_result"} }
                  b0 == Len(Preconditions(g))
              IN  /\ B = (b0 + 1)..(b0 + Len(stmts))
                  /\ \A i \in DOMAIN stmts :
                        IF i < Len(stmts) THEN fl[b0 + i] = _emit_flat_statement(stmts[i])
                        ELSE /\ fl[b0 + i].k \in {"return", "result"}
                             /\ fl[b0 + i].e = _expr(stmts[i])
                  /\ Cardinality({ i \in B : fl[i].k = "assign" }) = LetsOnChain(g.body)

\* C9: in every emitted function the first lines are the precondition
\* assertions, one per declared precondition and in declared order, and every
\* line of the body (assignments, statements, the tail expression, the
\* return) comes after all of them.
C9_PreconditionsBeforeBody ==
    pc = "em_done" =>
        \A g \in Graphs(program) :
            LET fl == FnLines(g) IN
            /\ Len(fl) > Len(Preconditions(g))
            /\ \A i \in DOMAIN Preconditions(g) :
                  fl[i].k = "assert_pre" /\ fl[i].e = _expr(Preconditions(g)[i])
            /\ \A i, j \in DOMAIN fl :
                  (fl[i].k = "assert_pre" /\ fl[j].k \in BodyKinds) => i < j
            /\ \A j \in DOMAIN fl : j > Len(Preconditions(g)) => fl[j].k \in BodyKinds \cup {"assert_post"}

\* a function with two different preconditions, an assignment, a statement
\* and a return has been emitted
C9_Witness ==
    /\ pc = "em_done"
    /\ \E g \in Graphs(program) :
          /\ Len(Preconditions(g)) = 2 /\ Preconditions(g)[1] # Preconditions(g)[2]
          /\ { FnLines(g)[i].k : i \in DOMAIN FnLines(g) } = {"assert_pre", "assign", "print", "return"}

\* C10: in every emitted function with postconditions the lines are, in this
\* order, the precondition assertions, the statements of the body, the
\* binding of the body's final expression to result, one assertion per
\* postcondition in declared order, and the return of result as the last
\* line; nothing is returned anywhere else.
C10_PostconditionsBetweenResultAndReturn ==
    pc = "em_done" =>
        \A g \in Graphs(program) :
            Postconditions(g) # <<>> =>
                LET fl    == FnLines(g)
                    n     == Len(fl)
                    m     == Len(Postconditions(g))
                    p     == Len(Preconditions(g))
                    stmts == _flatten_to_statements(g.body)
                IN  /\ n = p + Len(stmts) + m + 1
                    /\ \A i \in 1..p : fl[i].k = "assert_pre"
                    /\ \A i \in (p + 1)..(n - m - 2) : fl[i].k \in {"assign", "print", "expr"}
                    /\ fl[n - m - 1].k = "result"
                    /\ fl[n - m - 1].e = _expr(stmts[Len(stmts)])
                    /\ \A i \in 1..m :
                          /\ fl[n - m - 1 + i].k = "assert_post"
                          /\ fl[n - m - 1 + i].e = _expr(Postconditions(g)[i])
                    /\ fl[n].k = "return_result"

\* a function with a precondition, two different postconditions and body
\* statements before the binding of result has been emitted
C10_Witness ==
    /\ pc = "em_done"
    /\ \E g \in Graphs(program) :
          /\ Len(Postconditions(g)) = 2 /\ Postconditions(g)[1] # Postconditions(g)[2]
          /\ Len(Preconditions(g)) = 1
          /\ \E i \in DOMAIN FnLines(g) : FnLines(g)[i].k = "assign"
          /\ \E i \in DOMAIN FnLines(g) : FnLines(g)[i].k = "print"

(***************************************************************************)
(* type_checker.py                                                         *)
(* _infer returns a type or None and appends to self.errors: here it       *)
(* returns the pair [t, errs] of the type (NoType for None) and the        *)
(* diagnostics it appended, in order.  self is [program, type_defs,        *)
(* graph_sigs]; a TypeEnv chain is the function from the names it binds,   *)
(* inner bindings over outer ones.                                         *)
(***************************************************************************)
NoType == TypeNode("None", "", <<>>, <<>>)

RECURSIVE _types_equal(_, _)
_types_equal(a, b) ==
    IF a.k # b.k THEN FALSE
    ELSE IF a.k \in {"PrimitiveType", "NamedType"} THEN a.name = b.name
    ELSE IF a.k \in {"ListType", "OptionType"} THEN _types_equal(a.elems[1], b.elems[1])
    ELSE IF a.k = "FunctionType"
    THEN _types_equal(a.elems[1], b.elems[1]) /\ _types_equal(a.elems[2], b.elems[2])
    ELSE IF a.k = "TupleType"
    THEN /\ Len(a.elems) = Len(b.elems)
         /\ \A i \in DOMAIN a.elems : _types_equal(a.elems[i], b.elems[i])
    ELSE TRUE

_resolve(self, t) ==
    IF t.k = "NamedType" /\ t.name \in DOMAIN self.type_defs THEN self.type_defs[t.name] ELSE t

\* a compatibility that widens in both directions
_compatible_both_ways(self, actual, expected) ==
    LET a == _resolve(self, actual)
        e == _resolve(self, expected)
    IN  IF a.k = "PrimitiveType" /\ e.k = "PrimitiveType" /\ {a.name, e.name} = {"Int", "Float"}
        THEN TRUE
        ELSE _types_equal(a, e)

_compatible(self, actual, expected) ==
    LET a == _resolve(self, actual)
        e == _resolve(self, expected)
    IN  IF a.k = "PrimitiveType" /\ e.k = "PrimitiveType" /\ a.name = "Int" /\ e.name = "Float"
        THEN TRUE
        ELSE _types_equal(a, e)

\* the text _type_str writes for a type: a template over the texts of its parts
TypeText(template, name, parts, fields) ==
    [template |-> template, name |-> name, parts |-> parts, fields |-> fields]

RECURSIVE _type_str(_)
_type_str(t) ==
    LET parts == [i \in DOMAIN t.elems |-> _type_str(t.elems[i])] IN
    CASE t.k \in {"PrimitiveType", "NamedType"} -> TypeText("name", t.name, <<>>, <<>>)
      [] t.k = "ListType" -> TypeText("(List _)", "", parts, <<>>)
      [] t.k = "OptionType" -> TypeText("(Option _)", "", parts, <<>>)
      [] t.k = "FunctionType" -> TypeText("(-> _ _)", "", parts, <<>>)
      [] t.k = "RecordType" -> TypeText("(Record ...)", "", parts, t.fields)
      [] t.k = "EnumType" -> TypeText("(Enum ...)", "", <<>>, <<>>)
      [] t.k = "TupleType" -> TypeText("(Tuple ...)", "", parts, <<>>)
      [] OTHER -> TypeText("?", "", <<>>, <<>>)

\* one diagnostic string of the type checker: which message, the names and
\* numbers it quotes, and the type texts it quotes
TypeDiag(kind, names, nums, texts) ==
    [pass |-> "type", kind |-> kind, names |-> names, nums |-> nums, texts |-> texts]

Inferred(t, errs) == [t |-> t, errs |-> errs]

\* TypeEnv.lookup
lookup(env, name) == IF name \in DOMAIN env THEN env[name] ELSE NoType

_infer_literal(expr) ==
    CASE expr.name = "int" -> T_INT
      [] expr.name = "float" -> T_FLOAT
      [] expr.name = "string" -> T_STRING
      [] expr.name = "bool" -> T_BOOL
      [] OTHER -> T_UNIT

\* the diagnostics of a list of _infer results, in order
RECURSIVE ErrsOf(_, _)
ErrsOf(rs, i) == IF i > Len(rs) THEN <<>> ELSE rs[i].errs \o ErrsOf(rs, i + 1)

\* [d(t) for t in ts if test(t)]
DiagsWhere(ts, test(_), d(_)) ==
    LET sel == SelectSeq(ts, test) IN [i \in DOMAIN sel |-> d(sel[i])]

RECURSIVE _infer(_, _, _)

\* [self._infer(a, env) for a in es]
InferAll(self, es, env) == [i \in DOMAIN es |-> _infer(self, es[i], env)]

_infer_op(self, expr, env) ==
    LET rs == InferAll(self, expr.args, env)
        arg_types == [i \in DOMAIN rs |-> rs[i].t]
    IN  IF expr.name \in {"+", "-", "*", "/", "%"}
        THEN Inferred(IF \E i \in DOMAIN arg_types :
                            arg_types[i].k = "PrimitiveType" /\ arg_types[i].name = "Float"
                      THEN T_FLOAT ELSE T_INT,
                      ErrsOf(rs, 1)
                      \o DiagsWhere(arg_types,
                                    LAMBDA t : t.k = "PrimitiveType" /\ t.name \notin {"Int", "Float"},
                                    LAMBDA t : TypeDiag("arithmetic", <<expr.name>>, <<>>, <<_type_str(t)>>)))
        ELSE IF expr.name \in {"==", "!=", "<", ">", "<=", ">="}
        THEN Inferred(T_BOOL, ErrsOf(rs, 1))
        ELSE IF expr.name \in {"and", "or"}
        THEN Inferred(T_BOOL,
                      ErrsOf(rs, 1)
                      \o DiagsWhere(arg_types,
                                    LAMBDA t : t # NoType /\ ~_compatible(self, t, T_BOOL),
                                    LAMBDA t : TypeDiag("boolean", <<expr.name>>, <<>>, <<_type_str(t)>>)))
        ELSE Inferred(NoType, ErrsOf(rs, 1))

\* the loop of _infer_call over zip(expr.args, params), from pair i on
RECURSIVE CallArgErrs(_, _, _, _, _)
CallArgErrs(self, expr, params, env, i) ==
    IF i > Len(expr.args) \/ i > Len(params) THEN <<>>
    ELSE LET a == _infer(self, expr.args[i], env) IN
         a.errs
         \o (IF a.t # NoType /\ ~_compatible(self, a.t, params[i].type)
             THEN <<TypeDiag("argument", <<expr.name, params[i].name>>, <<>>,
                             <<_type_str(params[i].type), _type_str(a.t)>>)>>
             ELSE <<>>)
         \o CallArgErrs(self, expr, params, env, i + 1)

\* the type definitions that are enums with a variant of this name, by the
\* position of their first definition (the order of type_defs.items())
EnumsWithVariant(self, vname) ==
    { i \in DOMAIN self.program :
        /\ self.program[i].k = "TypeDef"
        /\ \A j \in 1..(i - 1) : ~(self.program[j].k = "TypeDef" /\ self.program[j].name = self.program[i].name)
        /\ LET tdef == self.type_defs[self.program[i].name] IN
           /\ tdef.k = "EnumType"
           /\ \E v \in DOMAIN tdef.elems : tdef.elems[v].name = vname }

_infer_call(self, expr, env) ==
    IF expr.name \in DOMAIN self.graph_sigs
    THEN LET params == self.graph_sigs[expr.name].inputs IN
         Inferred(self.graph_sigs[expr.name].output,
                  (IF Len(expr.args) # Len(params)
                   THEN <<TypeDiag("arity", <<expr.name>>, <<Len(params), Len(expr.args)>>, <<>>)>>
                   ELSE <<>>)
                  \o CallArgErrs(self, expr, params, env, 1))
    ELSE IF expr.name \in DOMAIN self.type_defs THEN Inferred(NamedType(expr.name), <<>>)
    ELSE IF EnumsWithVariant(self, expr.name) # {}
    THEN Inferred(NamedType(self.program[CHOOSE i \in EnumsWithVariant(self, expr.name) :
                                \A j \in EnumsWithVariant(self, expr.name) : i <= j].name), <<>>)
    ELSE Inferred(NoType, <<>>)

_infer_get(self, expr, env) ==
    LET o == _infer(self, expr.args[1], env)
        resolved == _resolve(self, o.t)
    IN  IF o.t # NoType /\ resolved.k = "RecordType"
        THEN LET F == { i \in DOMAIN resolved.fields : resolved.fields[i] = expr.name } IN
             IF F # {}
             THEN Inferred(resolved.elems[CHOOSE i \in F : \A j \in F : i <= j], o.errs)
             ELSE Inferred(NoType, o.errs \o <<TypeDiag("no_field", <<expr.name>>, <<>>, <<>>)>>)
        ELSE Inferred(NoType, o.errs)

_infer_builtin(self, expr, env) ==
    LET name == expr.name
        n    == Len(expr.args)
        arg(i) == _infer(self, expr.args[i], env)
    IN  CASE name = "not" -> Inferred(T_BOOL, <<>>)
          [] name \in {"map", "filter"} ->
                IF n >= 2
                THEN Inferred(IF name = "filter" THEN arg(2).t ELSE NoType, arg(2).errs)
                ELSE Inferred(NoType, <<>>)
          [] name = "reduce" -> Inferred(NoType, <<>>)
          [] name \in {"head", "nth"} ->
                IF n >= 1
                THEN Inferred(IF arg(1).t.k = "ListType" THEN arg(1).t.elems[1] ELSE NoType, arg(1).errs)
                ELSE Inferred(NoType, <<>>)
          [] name = "tail" -> IF n >= 1 THEN arg(1) ELSE Inferred(NoType, <<>>)
          [] name \in {"cons", "append"} ->
                IF n >= 2 THEN (IF name = "cons" THEN arg(2) ELSE arg(1)) ELSE Inferred(NoType, <<>>)
          [] name = "length" -> Inferred(T_INT, <<>>)
          [] name \in {"empty?", "some?"} -> Inferred(T_BOOL, <<>>)
          [] name \in {"concat", "format", "substr", "join"} -> Inferred(T_STRING, <<>>)
          [] name = "split" -> Inferred(ListType(T_STRING), <<>>)
          [] name = "range" -> Inferred(ListType(T_INT), <<>>)
          [] name = "print" -> Inferred(T_UNIT, <<>>)
          [] name = "read-line" -> Inferred(T_STRING, <<>>)
          [] name \in {"unwrap", "or-else"} ->
                IF n >= 1
                THEN Inferred(IF arg(1).t.k = "OptionType" THEN arg(1).t.elems[1] ELSE arg(1).t,
                              arg(1).errs)
                ELSE Inferred(NoType, <<>>)
          [] name = "sort-by" -> IF n >= 2 THEN arg(2) ELSE Inferred(NoType, <<>>)
          [] OTHER -> Inferred(NoType, <<>>)

_infer(self, expr, env) ==
    CASE expr.k = "LitExpr" -> Inferred(_infer_literal(expr), <<>>)
      [] expr.k = "IdentExpr" ->
            Inferred(lookup(env, expr.name),
                     IF lookup(env, expr.name) = NoType /\ expr.name # "result"
                     THEN <<TypeDiag("undefined_variable", <<expr.name>>, <<>>, <<>>)>>
                     ELSE <<>>)
      [] expr.k = "LetExpr" ->
            LET val  == _infer(self, expr.args[1], env)
                body == _infer(self, expr.args[2],
                               IF val.t # NoType THEN DictSet(env, expr.name, val.t) ELSE env)
            IN  Inferred(body.t, val.errs \o body.errs)
      [] expr.k = "IfExpr" ->
            LET cond  == _infer(self, expr.args[1], env)
                then_ == _infer(self, expr.args[2], env)
                else_ == _infer(self, expr.args[3], env)
            IN  Inferred(then_.t,
                         cond.errs
                         \o (IF cond.t # NoType /\ ~_compatible(self, cond.t, T_BOOL)
                             THEN <<TypeDiag("if_condition", <<>>, <<>>, <<_type_str(cond.t)>>)>>
                             ELSE <<>>)
                         \o then_.errs \o else_.errs)
      [] expr.k = "OpExpr" -> _infer_op(self, expr, env)
      [] expr.k = "CallExpr" -> _infer_call(self, expr, env)
      [] expr.k = "ListExpr" ->
            IF expr.args # <<>>
            THEN LET e == _infer(self, expr.args[1], env)
                 IN  Inferred(IF e.t # NoType THEN ListType(e.t) ELSE NoType, e.errs)
            ELSE Inferred(ListType(T_UNIT), <<>>)
      [] expr.k = "RecordExpr" -> Inferred(NamedType(expr.name), <<>>)
      [] expr.k = "GetExpr" -> _infer_get(self, expr, env)
      [] expr.k \in {"LambdaExpr", "PipeExpr"} -> Inferred(NoType, <<>>)
      [] expr.k = "DoExpr" ->
            IF expr.args # <<>>
            THEN LET rs == InferAll(self, expr.args, env)
                 IN  Inferred(rs[Len(rs)].t, ErrsOf(rs, 1))
            ELSE Inferred(T_UNIT, <<>>)
      [] expr.k = "MatchExpr" ->
            LET target == _infer(self, expr.args[1], env) IN
            IF expr.pats # <<>>
            THEN LET body == _infer(self, expr.args[2], env)
                 IN  Inferred(body.t, target.errs \o body.errs)
            ELSE Inferred(NoType, target.errs)
      [] expr.k = "BuiltinExpr" -> _infer_builtin(self, expr, env)
      [] expr.k = "SomeExpr" ->
            LET inner == _infer(self, expr.args[1], env)
            IN  Inferred(IF inner.t # NoType THEN OptionType(inner.t) ELSE NoType, inner.errs)
      [] expr.k = "NoneExpr" -> Inferred(OptionType(T_UNIT), <<>>)
      [] expr.k = "TryExpr" -> _infer(self, expr.args[1], env)
      [] OTHER -> Inferred(NoType, <<>>)

\* the loop "for name, type_ in graph.inputs: env.bind(name, type_)" over inputs[1..n]
RECURSIVE BindInputs(_, _)
BindInputs(inputs, n) ==
    IF n = 0 THEN EmptyDict ELSE DictSet(BindInputs(inputs, n - 1), inputs[n].name, inputs[n].type)

\* the diagnostics _check_graph appends
_check_graph(self, graph) ==
    LET body == _infer(self, graph.body, BindInputs(graph.inputs, Len(graph.inputs))) IN
    body.errs
    \o (IF body.t # NoType /\ ~_compatible(self, body.t, graph.output)
        THEN <<TypeDiag("output_mismatch", <<graph.name>>, <<>>,
                        <<_type_str(body.t), _type_str(graph.output)>>)>>
        ELSE <<>>)

\* the first two loops of TypeChecker.check over definitions[1..n]
RECURSIVE RegisterTypeDefs(_, _)
RegisterTypeDefs(defs, n) ==
    IF n = 0 THEN EmptyDict
    ELSE IF defs[n].k = "TypeDef"
    THEN DictSet(RegisterTypeDefs(defs, n - 1), defs[n].name, defs[n].type_expr)
    ELSE RegisterTypeDefs(defs, n - 1)

RECURSIVE RegisterGraphSigs(_, _)
RegisterGraphSigs(defs, n) ==
    IF n = 0 THEN EmptyDict
    ELSE IF defs[n].k = "Graph"
    THEN DictSet(RegisterGraphSigs(defs, n - 1), defs[n].name,
                 [inputs |-> defs[n].inputs, output |-> defs[n].output])
    ELSE RegisterGraphSigs(defs, n - 1)

(***************************************************************************)
(* check_types(program): TypeChecker(program).check()                      *)
(***************************************************************************)
LitF == LitExpr("float", 1)

TypeAtoms ==
    { Lit1, LitS, LitT, LitF, LitU, NoneExpr, ListExpr(<<>>), DoExpr(<<>>),
      IdentExpr("n"), IdentExpr("x"), IdentExpr("s"), IdentExpr("xs"), IdentExpr("c"),
      IdentExpr("p"), IdentExpr("o"), IdentExpr("u"), IdentExpr("result") }

TypeWrap(e) ==
    { OpExpr("+", <<e, Lit1>>), OpExpr("*", <<LitF, e>>), OpExpr("and", <<e, LitT>>),
      OpExpr("<", <<e, e>>), OpExpr("not", <<e>>),
      CallExpr("g", <<e>>), CallExpr("g", <<>>), CallExpr("g", <<Lit1, e>>),
      CallExpr("gf", <<e>>), CallExpr("Circle", <<e>>), CallExpr("Point", <<e>>), CallExpr("h", <<e>>),
      GetExpr(e, "x"), GetExpr(e, "z"),
      BuiltinExpr("head", <<e>>), BuiltinExpr("tail", <<e>>), BuiltinExpr("filter", <<Lam1, e>>),
      BuiltinExpr("map", <<Lam1, e>>), BuiltinExpr("cons", <<Lit1, e>>), BuiltinExpr("append", <<e, Lit1>>),
      BuiltinExpr("unwrap", <<e>>), BuiltinExpr("sort-by", <<Lam1, e>>), BuiltinExpr("not", <<e>>),
      BuiltinExpr("length", <<e>>), BuiltinExpr("print", <<e>>), BuiltinExpr("split", <<e, LitS>>),
      BuiltinExpr("reduce", <<Lam2, Lit0, e>>), BuiltinExpr("head", <<>>),
      LetExpr("a", e, IdentExpr("a")), LetExpr("a", Lit1, e), LetExpr("n", e, IdentExpr("n")),
      MatchExpr(e, <<IdentPattern("k")>>, <<IdentExpr("k")>>),
      MatchExpr(IdentExpr("c"), <<ConstructorPattern("Circle", <<IdentPattern("r")>>), WildcardPattern>>,
                <<IdentExpr("r"), e>>),
      MatchExpr(e, <<LiteralPattern(1), WildcardPattern>>, <<Lit1, Lit0>>),
      MatchExpr(e, <<>>, <<>>),
      IfExpr(e, Lit1, Lit1), IfExpr(LitT, e, e), IfExpr(LitT, Lit1, e),
      ListExpr(<<e>>), ListExpr(<<Lit1, e>>), SomeExpr(e), TryExpr(e, "err", Lit1), ErrorExpr(e),
      DoExpr(<<e, Lit1>>), DoExpr(<<LitS, e>>), LambdaExpr(<<Param("v")>>, e),
      PipeExpr(e, <<BuiltinExpr("filter", <<Lam1>>)>>),
      RecordExpr("Point", <<Param("x"), Param("y")>>, <<e, Lit1>>), SetExpr(e, "x", Lit1) }

\* a let whose bound name is used in its body, over values of known and of unknown type
TypeLets ==
    { LetExpr("k", v, DoExpr(<<IdentExpr("k"), Lit1>>)) :
        v \in { Lit1, Lam1, ErrorExpr(LitS), PipeExpr(IdentExpr("xs"), <<BuiltinExpr("filter", <<Lam1>>)>>) } }

TypeBodies == TypeAtoms \cup TypeLets \cup UNION { TypeWrap(e) : e \in TypeAtoms }
TypeOutputs ==
    { T_INT, T_FLOAT, ListType(T_INT), NamedType("Shape"), NamedType("Loop"), NamedType("Nope"),
      NamedType("Point"), NamedType("Empty"), NamedType("Color") }

\* a type definition that names itself
Loop == TypeDef("Loop", NamedType("Loop"))

\* an enum other than Shape
Color == TypeDef("Color", EnumType(<<Variant("Blue", <<>>)>>))

TypePrograms ==
    { <<Shape, Point, Loop,
        Graph("f", <<Input("n", T_INT), Input("x", T_FLOAT), Input("s", T_STRING),
                     Input("xs", ListType(T_INT)), Input("c", NamedType("Shape")),
                     Input("p", NamedType("Point")), Input("o", OptionType(T_INT))>>,
              out, <<"pure">>, NoContract, b),
        Graph("g", <<Input("y", T_INT)>>, T_INT, <<"pure">>, NoContract, IdentExpr("y")),
        Graph("gf", <<Input("y", T_FLOAT)>>, T_FLOAT, <<"pure">>, NoContract, IdentExpr("y")),
        Unit0, Color>> :
      out \in TypeOutputs, b \in TypeBodies }

InitTypes ==
    /\ program \in TypePrograms
    /\ pc = "tc_start"
    /\ Idle

\* the TypeChecker object while check runs
Self == [program |-> program, type_defs |-> type_defs, graph_sigs |-> graph_sigs]

\* TypeChecker.check, first two loops: register type definitions and graph signatures
TypeChecker_register ==
    /\ pc = "tc_start"
    /\ type_defs' = RegisterTypeDefs(program, Len(program))
    /\ graph_sigs' = RegisterGraphSigs(program, Len(program))
    /\ idx' = 0
    /\ pc' = "tc_check"
    /\ UNCHANGED <<program, errors, graph_effects, raised, emitterVars, parserVars, returned>>

\* a third loop that leaves at the first graph with diagnostics
TypeChecker_check_graph_stopping ==
    /\ pc = "tc_check"
    /\ idx < Len(program)
    /\ errors' = (IF program[idx + 1].k = "Graph" /\ errors = <<>>
                  THEN _check_graph(Self, program[idx + 1])
                  ELSE errors)
    /\ idx' = idx + 1
    /\ UNCHANGED <<program, pc, graph_effects, type_defs, graph_sigs, raised, emitterVars, parserVars, returned>>

\* TypeChecker.check, third loop, one definition
TypeChecker_check_graph ==
    /\ pc = "tc_check"
    /\ idx < Len(program)
    /\ errors' = errors \o (IF program[idx + 1].k = "Graph"
                             THEN _check_graph(Self, program[idx + 1])
                             ELSE <<>>)
    /\ idx' = idx + 1
    /\ UNCHANGED <<program, pc, graph_effects, type_defs, graph_sigs, raised, emitterVars, parserVars, returned>>

TypeChecker_return ==
    /\ pc = "tc_check"
    /\ idx >= Len(program)
    /\ pc' = "tc_done"
    /\ UNCHANGED <<program, idx, errors, graph_effects, type_defs, graph_sigs, raised, emitterVars, parserVars, returned>>

NextTypes ==
    \/ TypeChecker_register
    \/ TypeChecker_check_graph
    \/ TypeChecker_return

SpecTypes == InitTypes /\ [][NextTypes]_vars

\* the verdict of the typing below on an expression it rejects or does not cover
Ill == TypeNode("Ill", "", <<>>, <<>>)

\* the type of a value whose type the checker leaves open: a lambda, a pipe, a raise
Opaque == TypeNode("Opaque", "", <<>>, <<>>)

RECURSIVE BindOpaque(_, _, _)
BindOpaque(env, params, n) ==
    IF n = 0 THEN env ELSE DictSet(BindOpaque(env, params, n - 1), params[n].name, Opaque)

\* The typing of spec 4.3 on literals, identifiers, let, do, lambda, pipe, error
\* and arithmetic: an identifier has the type its innermost enclosing binder
\* gives it, a let binds its name in its body only.
RECURSIVE TyV(_, _)
TyV(e, env) ==
    CASE e.k = "LitExpr" -> _infer_literal(e)
      [] e.k = "IdentExpr" -> IF e.name \in DOMAIN env THEN env[e.name] ELSE Ill
      [] e.k = "LetExpr" ->
            LET v == TyV(e.args[1], env) IN
            IF v = Ill THEN Ill ELSE TyV(e.args[2], DictSet(env, e.name, v))
      [] e.k = "DoExpr" ->
            IF e.args = <<>> THEN T_UNIT
            ELSE IF \E i \in DOMAIN e.args : TyV(e.args[i], env) = Ill THEN Ill
            ELSE TyV(e.args[Len(e.args)], env)
      [] e.k = "LambdaExpr" ->
            IF TyV(e.args[1], BindOpaque(env, e.pats, Len(e.pats))) = Ill THEN Ill ELSE Opaque
      [] e.k = "ErrorExpr" -> IF TyV(e.args[1], env) = Ill THEN Ill ELSE Opaque
      [] e.k = "PipeExpr" ->
            IF \E i \in DOMAIN e.args : e.args[i].k # "BuiltinExpr" /\ TyV(e.args[i], env) = Ill
            THEN Ill ELSE Opaque
      [] e.k = "OpExpr" /\ e.name \in {"+", "-", "*"} /\ Len(e.args) = 2 ->
            LET ts == { TyV(e.args[i], env) : i \in DOMAIN e.args } IN
            IF ~(ts \subseteq {T_INT, T_FLOAT, Opaque}) THEN Ill
            ELSE IF T_FLOAT \in ts THEN T_FLOAT
            ELSE IF Opaque \in ts THEN Opaque
            ELSE T_INT
      [] OTHER -> Ill

\* nothing is violated in graph g: its body is typed, and at its declared output type
NothingViolated(g) ==
    LET t == TyV(g.body, BindInputs(g.inputs, Len(g.inputs))) IN
    /\ t \notin {Ill, Opaque}
    /\ t = g.output \/ (t = T_INT /\ g.output = T_FLOAT)

\* C4: check_types returns without raising, and its list of diagnostics is
\* empty when no graph of the program violates anything.
C4_CheckTypesTotalAndEmptyOnSuccess ==
    /\ raised = "none"
    /\ (pc = "tc_done" /\ \A g \in Graphs(program) : NothingViolated(g)) => errors = <<>>

\* the names check_types has reported as undefined variables
ReportedUndefined ==
    { errors[i].names[1] : i \in { j \in DOMAIN errors : errors[j].kind = "undefined_variable" } }

\* the names of the inputs of a graph
InputNames(g) == { g.inputs[i].name : i \in DOMAIN g.inputs }

\* C16: check_types reports an identifier of a graph body as an undefined
\* variable exactly when neither an input of the graph nor an enclosing
\* binder whose body holds the reference binds it; a let binds its name in
\* all of its body, whatever the type of the bound value.
C16_UndefinedIffUnbound ==
    pc = "tc_done" =>
        ReportedUndefined = UNION { FreeIdents(g.body) \ InputNames(g) : g \in Graphs(program) }

\* the types _infer gives the operands of an application, in the scope of
\* the inputs of graph g
OperandTypes(g) ==
    [i \in DOMAIN g.body.args |->
        _infer(Self, g.body.args[i], BindInputs(g.inputs, Len(g.inputs))).t]

\* the graphs whose body is the application of an arithmetic operator
ArithmeticGraphs(prog) ==
    { g \in Graphs(prog) : g.body.k = "OpExpr" /\ g.body.name \in {"+", "-", "*", "/", "%"} }

\* C18: for the application of an arithmetic operator check_types reports a
\* diagnostic whenever an operand has a known type other than Int and Float,
\* primitive or not, and the type of the application is Float if an operand
\* is Float and Int otherwise.
C18_ArithmeticNeedsNumbers ==
    pc = "tc_done" =>
        \A g \in ArithmeticGraphs(program) :
            LET ts == OperandTypes(g) IN
            /\ (\E i \in DOMAIN ts : ts[i] \notin {NoType, T_INT, T_FLOAT})
                   => \E j \in DOMAIN errors : errors[j].kind = "arithmetic"
            /\ _infer(Self, g.body, BindInputs(g.inputs, Len(g.inputs))).t
                   = (IF \E i \in DOMAIN ts : ts[i] = T_FLOAT THEN T_FLOAT ELSE T_INT)

\* two types have the same shape: the same kind, name and field names, and
\* components of the same shape, one by one
RECURSIVE SameShape(_, _)
SameShape(a, b) ==
    /\ a.k = b.k /\ a.name = b.name /\ a.fields = b.fields
    /\ Len(a.elems) = Len(b.elems)
    /\ \A i \in DOMAIN a.elems : SameShape(a.elems[i], b.elems[i])

\* the diagnostic of _check_graph on graph g has been given
HasOutputMismatch(g) ==
    \E j \in DOMAIN errors : errors[j].kind = "output_mismatch" /\ errors[j].names = <<g.name>>

\* C19: compatibility is structural: a graph whose body has a known type
\* that is compatible with its declared output has the shape of that output
\* (or is Int where Float is declared), so a body of one record or enum type
\* under a declared output of another record or enum type gets the mismatch
\* diagnostic.
C19_CompatibleIsStructural ==
    pc = "tc_done" =>
        \A g \in Graphs(program) :
            LET t == _infer(Self, g.body, BindInputs(g.inputs, Len(g.inputs))).t
                a == _resolve(Self, t)
                e == _resolve(Self, g.output)
            IN  (t # NoType /\ ~SameShape(a, e) /\ ~(a = T_INT /\ e = T_FLOAT))
                    => HasOutputMismatch(g)

Primitives == {T_INT, T_FLOAT, T_STRING, T_BOOL, T_UNIT}

\* the diagnostic of _infer_call on an argument of type got for a parameter
\* has been given
HasArgumentDiag(func, pname, got) ==
    \E j \in DOMAIN errors :
        /\ errors[j].kind = "argument" /\ errors[j].names = <<func, pname>>
        /\ errors[j].texts[2] = _type_str(got)

\* a primitive type is accepted where expected is declared: the same type,
\* or Int where Float is declared
Widens(actual, expected) ==
    actual \in Primitives /\ (actual = expected \/ (actual = T_INT /\ expected = T_FLOAT))

\* C20: widening goes one way. A body of type Int is accepted under a
\* declared output Float and an argument of type Int for a parameter declared
\* Float, a Float is not accepted where Int is declared, and a primitive is
\* accepted where the same primitive is declared.
C20_WideningOneWay ==
    pc = "tc_done" =>
        \A g \in Graphs(program) :
            LET env == BindInputs(g.inputs, Len(g.inputs))
                t   == _infer(Self, g.body, env).t
            IN  /\ Widens(t, g.output) => ~HasOutputMismatch(g)
                /\ (t = T_FLOAT /\ g.output = T_INT) => HasOutputMismatch(g)
                /\ (g.body.k = "CallExpr" /\ g.body.name \in DOMAIN graph_sigs) =>
                       LET params == graph_sigs[g.body.name].inputs IN
                       \A i \in DOMAIN g.body.args \cap DOMAIN params :
                           LET a == _infer(Self, g.body.args[i], env).t IN
                           /\ Widens(a, params[i].type)
                                  => ~HasArgumentDiag(g.body.name, params[i].name, a)
                           /\ (a = T_FLOAT /\ params[i].type = T_INT)
                                  => HasArgumentDiag(g.body.name, params[i].name, a)

\* a checked graph that hands a Float to a parameter declared Int, which is
\* reported, and whose body of type Int stands under a declared output Float,
\* which is not
C20_Witness ==
    /\ pc = "tc_done"
    /\ \E g \in Graphs(program) :
           /\ g.body = CallExpr("g", <<IdentExpr("x")>>) /\ g.output = T_FLOAT
           /\ HasArgumentDiag("g", "y", T_FLOAT)
           /\ ~HasOutputMismatch(g)

(***************************************************************************)
(* lexer.py                                                                *)
(***************************************************************************)
Token(type, value, chars, ln, cl) ==
    [type |-> type, value |-> value, chars |-> chars, line |-> ln, col |-> cl]

\* the token an exception carries when it carries none
NoToken == Token("", "", <<>>, 0, 0)

\* what an exception carries: its message, the token given to it, its line and column
Exception(msg, want, has_token, token, ln, cl) ==
    [msg |-> msg, want |-> want, has_token |-> has_token, token |-> token, line |-> ln, col |-> cl]

LexError(msg, ln, cl) == Exception(msg, "", FALSE, NoToken, ln, cl)

\* ''.join(chars)
RECURSIVE Join(_)
Join(chars) == IF chars = <<>> THEN "" ELSE chars[1] \o Join(Tail(chars))

\* the characters of the texts below for which str.isprintable is false
NotPrintable == {"\t", "\n", "\r", "\f"}

_is_atom_char(ch) == ch \notin {"(", ")", " ", "\t", "\n", "\r", ";", "\""} /\ ch \notin NotPrintable

\* the characters for which int() and float() read a digit, with its value
DecimalDigits == {"0", "1", "2", "3", "4", "5", "6", "7", "8", "9"}

DigitValue(ch) ==
    CASE ch = "0" -> 0 [] ch = "1" -> 1 [] ch = "2" -> 2 [] ch = "3" -> 3 [] ch = "4" -> 4
      [] ch = "5" -> 5 [] ch = "6" -> 6 [] ch = "7" -> 7 [] ch = "8" -> 8 [] ch = "9" -> 9

\* the characters for which str.isdigit is true: the decimal digits and the
\* digits that are not decimal, such as the superscript two
IsDigitChars == DecimalDigits \cup {"²"}

\* str.isdigit
isdigit(chars) == chars # <<>> /\ \A i \in DOMAIN chars : chars[i] \in IsDigitChars

_is_int(s) ==
    IF s # <<>> /\ s[1] = "-" THEN Len(s) > 1 /\ isdigit(Tail(s)) ELSE isdigit(s)

\* the positions of the dots of t
Dots(t) == { i \in DOMAIN t : t[i] = "." }

_is_float(s) ==
    LET t == IF s # <<>> /\ s[1] = "-" THEN Tail(s) ELSE s IN
    /\ Cardinality(Dots(t)) = 1
    /\ LET d == CHOOSE i \in Dots(t) : TRUE IN
       isdigit(SubSeq(t, 1, d - 1)) /\ isdigit(SubSeq(t, d + 1, Len(t)))

_classify_atom(word, ln, cl) ==
    IF _is_int(word) THEN Token("INT", Join(word), word, ln, cl)
    ELSE IF _is_float(word) THEN Token("FLOAT", Join(word), word, ln, cl)
    ELSE Token("IDENT", Join(word), word, ln, cl)

\* the character an escape sequence of a string literal stands for
Escaped(esc) == CASE esc = "n" -> "\n" [] esc = "t" -> "\t" [] OTHER -> esc

\* tokenize, the loop over the inside of a string literal: i is 0-based, the
\* result is where the loop stops
RECURSIVE StringLoop(_, _, _, _, _)
StringLoop(src, i, ln, cl, buf) ==
    IF ~(i < Len(src) /\ src[i + 1] # "\"") THEN [i |-> i, line |-> ln, col |-> cl, buf |-> buf]
    ELSE IF src[i + 1] = "\\" /\ i + 1 < Len(src)
    THEN StringLoop(src, i + 2, ln, cl + 2, Append(buf, Escaped(src[i + 2])))
    ELSE IF src[i + 1] = "\n"
    THEN StringLoop(src, i + 1, ln + 1, 1, Append(buf, "\n"))
    ELSE StringLoop(src, i + 1, ln, cl + 1, Append(buf, src[i + 1]))

\* tokenize, the loop over a comment: the first index from i on that is the
\* end of the text or holds a newline
RECURSIVE CommentEnd(_, _)
CommentEnd(src, i) ==
    IF i < Len(src) /\ src[i + 1] # "\n" THEN CommentEnd(src, i + 1) ELSE i

\* tokenize, the loop over an atom: the first index from i on that is the end
\* of the text or holds no atom character
RECURSIVE AtomEnd(_, _)
AtomEnd(src, i) ==
    IF i < Len(src) /\ _is_atom_char(src[i + 1]) THEN AtomEnd(src, i + 1) ELSE i

(***************************************************************************)
(* parser.py: every method is an operator from the token list and the      *)
(* position to an outcome, the value returned with the new position or the *)
(* exception raised. A method body that is a run of calls is written as    *)
(* the list of its calls, which Run makes in order up to the first raise.  *)
(***************************************************************************)
OPERATORS == {"+", "-", "*", "/", "%", "==", "!=", "<", ">", "<=", ">=", "and", "or"}

BUILTINS ==
    { "not", "map", "filter", "reduce", "head", "tail", "cons", "append", "nth", "range", "empty?",
      "sort-by", "length", "concat", "substr", "split", "join", "format", "print", "read-line",
      "some", "none", "some?", "unwrap", "map-opt", "or-else", "error", "try", "catch", "set" }

PRIMITIVE_TYPES == {"Int", "Float", "String", "Bool", "Unit"}

\* the heads parse_sexpr tests before the operators and the builtins
SexprKeywords ==
    {"let", "if", "match", "lambda", "pipe", "do", "call", "list", "record", "get", "some", "try", "error"}

Ok(p, v) == [ok |-> TRUE, pos |-> p, v |-> v, raised |-> "none", caught |-> NoException]
Throw(type, e) == [ok |-> FALSE, pos |-> 0, v |-> 0, raised |-> type, caught |-> e]

ParseError(msg, want, token) == Exception(msg, want, TRUE, token, token.line, token.col)
ParseErrorNoToken(msg, want) == Exception(msg, want, FALSE, NoToken, 0, 0)

\* self.tokens[self.pos], an IndexError past the end of the list
peek(toks, p) ==
    IF p < Len(toks) THEN Ok(p, toks[p + 1]) ELSE Throw("IndexError", NoException)

advance(toks, p) ==
    IF p < Len(toks) THEN Ok(p + 1, toks[p + 1]) ELSE Throw("IndexError", NoException)

\* an optional value of expect
NoValue == [some |-> FALSE, v |-> ""]
Value(v) == [some |-> TRUE, v |-> v]

\* expect, on the token advance returned
Expected(r, ttype, value) ==
    IF ~r.ok THEN r
    ELSE IF r.v.type # ttype THEN Throw("ParseError", ParseError("Expected type", ttype, r.v))
    ELSE IF value.some /\ r.v.value # value.v
    THEN Throw("ParseError", ParseError("Expected value", value.v, r.v))
    ELSE r

expect(toks, p, ttype, value) == Expected(advance(toks, p), ttype, value)

expect_ident(toks, p, value) == expect(toks, p, "IDENT", value)

\* at_lparen, at_rparen, at_eof, where the list has a token at the position
at(toks, p, ttype) == p < Len(toks) /\ toks[p + 1].type = ttype

\* int(tok.value) of an INT token: a ValueError on a digit that is not decimal
RECURSIVE DigitsValue(_)
DigitsValue(chars) ==
    IF chars = <<>> THEN 0
    ELSE 10 * DigitsValue(SubSeq(chars, 1, Len(chars) - 1)) + DigitValue(chars[Len(chars)])

Unsigned(chars) == IF chars # <<>> /\ chars[1] = "-" THEN Tail(chars) ELSE chars

IntParses(chars) == \A i \in DOMAIN Unsigned(chars) : Unsigned(chars)[i] \in DecimalDigits

IntOf(chars) ==
    IF chars[1] = "-" THEN 0 - DigitsValue(Tail(chars)) ELSE DigitsValue(chars)

\* float(tok.value) of a FLOAT token, as the integer and the fraction digits
FloatParses(chars) ==
    \A i \in DOMAIN Unsigned(chars) : Unsigned(chars)[i] \in DecimalDigits \cup {"."}

RECURSIVE StripZeros(_)
StripZeros(chars) ==
    IF chars # <<>> /\ chars[Len(chars)] = "0" THEN StripZeros(SubSeq(chars, 1, Len(chars) - 1))
    ELSE chars

FloatValue(chars, t, d) ==
    [neg |-> chars[1] = "-" /\ ~(DigitsValue(SubSeq(t, 1, d - 1)) = 0 /\ StripZeros(SubSeq(t, d + 1, Len(t))) = <<>>),
     int |-> DigitsValue(SubSeq(t, 1, d - 1)),
     frac |-> StripZeros(SubSeq(t, d + 1, Len(t)))]

FloatOf(chars) == FloatValue(chars, Unsigned(chars), CHOOSE i \in Dots(Unsigned(chars)) : TRUE)

\* the calls a method makes
ExpectType(ttype) == [s |-> "expect", type |-> ttype, value |-> NoValue, what |-> ""]
ExpectIdent(v)    == [s |-> "expect", type |-> "IDENT", value |-> Value(v), what |-> ""]
Advance           == [s |-> "advance", type |-> "", value |-> NoValue, what |-> ""]
Call(what)        == [s |-> "call", type |-> "", value |-> NoValue, what |-> what]
While(what)       == [s |-> "while", type |-> "", value |-> NoValue, what |-> what]

RECURSIVE Parse(_, _, _), Many(_, _, _, _), Run(_, _, _, _)

MakeCall(step, toks, p) ==
    CASE step.s = "expect" -> expect(toks, p, step.type, step.value)
      [] step.s = "advance" -> advance(toks, p)
      [] step.s = "call" -> Parse(step.what, toks, p)
      [] step.s = "while" -> Many(step.what, toks, p, <<>>)

\* the calls of steps in order from position p: the values they return, or
\* the first exception
RunFrom(r, steps, toks, vals) ==
    IF r.ok THEN Run(Tail(steps), toks, r.pos, Append(vals, r.v)) ELSE r

Run(steps, toks, p, vals) ==
    IF steps = <<>> THEN Ok(p, vals) ELSE RunFrom(MakeCall(steps[1], toks, p), steps, toks, vals)

\* while not self.at_rparen(): acc.append(...)
ManyFrom(r, what, toks, acc) ==
    IF r.ok THEN Many(what, toks, r.pos, Append(acc, r.v)) ELSE r

Many(what, toks, p, acc) ==
    IF p >= Len(toks) THEN Throw("IndexError", NoException)
    ELSE IF toks[p + 1].type = "RPAREN" THEN Ok(p, acc)
    ELSE ManyFrom(Parse(what, toks, p), what, toks, acc)

\* the names and the types of a list of (name, type) pairs
Names(pairs) == [i \in DOMAIN pairs |-> pairs[i].name]
Types(pairs) == [i \in DOMAIN pairs |-> pairs[i].type]

parse_param(toks, p) ==
    LET Built(r) == IF r.ok THEN Ok(r.pos, Input(r.v[2].value, r.v[3])) ELSE r IN
    Built(Run(<<ExpectType("LPAREN"), ExpectType("IDENT"), Call("parse_type_expr"), ExpectType("RPAREN")>>,
              toks, p, <<>>))

\* one (vname vtype...) of an Enum in parse_type_expr
EnumVariant(toks, p) ==
    LET Built(r) == IF r.ok THEN Ok(r.pos, Variant(r.v[2].value, r.v[3])) ELSE r IN
    Built(Run(<<ExpectType("LPAREN"), ExpectType("IDENT"), While("parse_type_expr"), ExpectType("RPAREN")>>,
              toks, p, <<>>))

\* parse_type_expr after an opening parenthesis, at the keyword kw
CompoundType(toks, p, kw) ==
    LET Built(r) ==
            IF ~r.ok THEN r
            ELSE Ok(r.pos, CASE kw.value = "List" -> ListType(r.v[1])
                             [] kw.value = "Option" -> OptionType(r.v[1])
                             [] kw.value = "Tuple" -> TupleType(r.v[1])
                             [] kw.value = "Record" -> RecordType(Names(r.v[1]), Types(r.v[1]))
                             [] kw.value = "->" -> FunctionType(r.v[1], r.v[2])
                             [] kw.value = "Enum" -> EnumType(r.v[1]))
    IN  CASE kw.value \in {"List", "Option"} ->
                Built(Run(<<Call("parse_type_expr"), ExpectType("RPAREN")>>, toks, p + 1, <<>>))
          [] kw.value = "Tuple" ->
                Built(Run(<<While("parse_type_expr"), ExpectType("RPAREN")>>, toks, p + 1, <<>>))
          [] kw.value = "Record" ->
                Built(Run(<<While("parse_param"), ExpectType("RPAREN")>>, toks, p + 1, <<>>))
          [] kw.value = "->" ->
                Built(Run(<<Call("parse_type_expr"), Call("parse_type_expr"), ExpectType("RPAREN")>>,
                          toks, p + 1, <<>>))
          [] kw.value = "Enum" ->
                Built(Run(<<While("enum variant"), ExpectType("RPAREN")>>, toks, p + 1, <<>>))
          [] OTHER -> Throw("ParseError", ParseError("Unknown compound type", "", kw))

parse_type_expr(toks, p) ==
    IF p >= Len(toks) THEN Throw("IndexError", NoException)
    ELSE IF toks[p + 1].type = "IDENT"
    THEN Ok(p + 1, IF toks[p + 1].value \in PRIMITIVE_TYPES THEN PrimitiveType(toks[p + 1].value)
                   ELSE NamedType(toks[p + 1].value))
    ELSE IF toks[p + 1].type = "LPAREN"
    THEN IF p + 1 >= Len(toks) THEN Throw("IndexError", NoException)
         ELSE CompoundType(toks, p + 1, toks[p + 2])
    ELSE Throw("ParseError", ParseError("Expected type expression", "", toks[p + 1]))

parse_pattern(toks, p) ==
    LET Built(r) == IF r.ok THEN Ok(r.pos, ConstructorPattern(r.v[1].value, r.v[2])) ELSE r
        tok == toks[p + 1]
    IN  IF p >= Len(toks) THEN Throw("IndexError", NoException)
        ELSE CASE tok.type = "IDENT" ->
                    Ok(p + 1, IF tok.value = "_" THEN WildcardPattern
                              ELSE IF tok.value \in {"true", "false"} THEN LiteralPattern(tok.value = "true")
                              ELSE IdentPattern(tok.value))
               [] tok.type = "INT" ->
                    IF IntParses(tok.chars) THEN Ok(p + 1, LiteralPattern(IntOf(tok.chars)))
                    ELSE Throw("ValueError", NoException)
               [] tok.type = "FLOAT" ->
                    IF FloatParses(tok.chars) THEN Ok(p + 1, LiteralPattern(FloatOf(tok.chars)))
                    ELSE Throw("ValueError", NoException)
               [] tok.type = "STRING" -> Ok(p + 1, LiteralPattern(tok.value))
               [] tok.type = "LPAREN" ->
                    Built(Run(<<ExpectType("IDENT"), While("parse_pattern"), ExpectType("RPAREN")>>,
                              toks, p + 1, <<>>))
               [] OTHER -> Throw("ParseError", ParseError("Expected pattern", "", tok))

\* a match arm is a [pattern, body] pair
parse_match_arm(toks, p) ==
    LET Built(r) == IF r.ok THEN Ok(r.pos, [pattern |-> r.v[2], body |-> r.v[3]]) ELSE r IN
    Built(Run(<<ExpectType("LPAREN"), Call("parse_pattern"), Call("parse_expr"), ExpectType("RPAREN")>>,
              toks, p, <<>>))

\* one parameter of _parse_lambda: a bare name or (name type)
LambdaParam(toks, p) ==
    LET Typed(r) == IF r.ok THEN Ok(r.pos, Param(r.v.name)) ELSE r
        Bare(r) == IF r.ok THEN Ok(r.pos, Param(r.v.value)) ELSE r
    IN  IF p >= Len(toks) THEN Throw("IndexError", NoException)
        ELSE IF toks[p + 1].type = "LPAREN" THEN Typed(parse_param(toks, p))
        ELSE Bare(expect(toks, p, "IDENT", NoValue))

\* one (fname fval) of _parse_record
RecordField(toks, p) ==
    LET Built(r) == IF r.ok THEN Ok(r.pos, [name |-> r.v[2].value, value |-> r.v[3]]) ELSE r IN
    Built(Run(<<ExpectType("LPAREN"), ExpectType("IDENT"), Call("parse_expr"), ExpectType("RPAREN")>>,
              toks, p, <<>>))

\* one (pre e) or (post e) of parse_contract_decl
ContractClause(toks, p) ==
    LET Built(kind, r) == IF r.ok THEN Ok(r.pos, [kind |-> kind, e |-> r.v[1]]) ELSE r
        Clause(r) ==
            IF ~r.ok THEN r
            ELSE IF r.v[2].value \in {"pre", "post"}
            THEN Built(r.v[2].value, Run(<<Call("parse_expr"), ExpectType("RPAREN")>>, toks, r.pos, <<>>))
            ELSE Throw("ParseError", ParseErrorNoToken("Expected 'pre' or 'post'", r.v[2].value))
    IN  Clause(Run(<<ExpectType("LPAREN"), ExpectType("IDENT")>>, toks, p, <<>>))

\* one name of parse_effect_decl
EffectName(toks, p) ==
    LET Built(r) == IF r.ok THEN Ok(r.pos, r.v.value) ELSE r IN
    Built(expect(toks, p, "IDENT", NoValue))

\* a let without a body, as _parse_let returns it
IsBodylessLet(e) == e.k = "LetExpr" /\ e.args[2].k = "LitExpr" /\ e.args[2].name = "unit"

RECURSIVE _chain_lets(_)
_chain_lets(exprs) ==
    IF exprs = <<>> THEN exprs
    ELSE IF IsBodylessLet(exprs[1]) /\ Len(exprs) > 1
    THEN LET Chained(remaining) ==
                <<LetExpr(exprs[1].name, exprs[1].args[1],
                          IF Len(remaining) = 1 THEN remaining[1] ELSE DoExpr(remaining))>>
         IN  Chained(_chain_lets(Tail(exprs)))
    ELSE <<exprs[1]>> \o _chain_lets(Tail(exprs))

_parse_let(toks, p) ==
    LET Built(r, q) ==
            IF q.ok THEN Ok(q.pos, LetExpr(r.v[2].value, r.v[3],
                                           IF Len(q.v) = 1 THEN LitExpr("unit", 0) ELSE q.v[1]))
            ELSE q
        Body(r) ==
            IF ~r.ok THEN r
            ELSE IF at(toks, r.pos, "RPAREN")
            THEN Built(r, Run(<<ExpectType("RPAREN")>>, toks, r.pos, <<>>))
            ELSE Built(r, Run(<<Call("parse_expr"), ExpectType("RPAREN")>>, toks, r.pos, <<>>))
    IN  Body(Run(<<ExpectIdent("let"), ExpectType("IDENT"), Call("parse_expr")>>, toks, p, <<>>))

_parse_if(toks, p) ==
    LET Built(r) == IF r.ok THEN Ok(r.pos, IfExpr(r.v[2], r.v[3], r.v[4])) ELSE r IN
    Built(Run(<<ExpectIdent("if"), Call("parse_expr"), Call("parse_expr"), Call("parse_expr"),
                ExpectType("RPAREN")>>, toks, p, <<>>))

_parse_match(toks, p) ==
    LET Built(r) ==
            IF r.ok THEN Ok(r.pos, MatchExpr(r.v[2], [i \in DOMAIN r.v[3] |-> r.v[3][i].pattern],
                                             [i \in DOMAIN r.v[3] |-> r.v[3][i].body]))
            ELSE r
    IN  Built(Run(<<ExpectIdent("match"), Call("parse_expr"), While("parse_match_arm"),
                    ExpectType("RPAREN")>>, toks, p, <<>>))

_parse_lambda(toks, p) ==
    LET Built(r) == IF r.ok THEN Ok(r.pos, LambdaExpr(r.v[3], r.v[5])) ELSE r IN
    Built(Run(<<ExpectIdent("lambda"), ExpectType("LPAREN"), While("lambda param"), ExpectType("RPAREN"),
                Call("parse_expr"), ExpectType("RPAREN")>>, toks, p, <<>>))

_parse_pipe(toks, p) ==
    LET Built(r) == IF r.ok THEN Ok(r.pos, PipeExpr(r.v[2], r.v[3])) ELSE r IN
    Built(Run(<<ExpectIdent("pipe"), Call("parse_expr"), While("parse_expr"), ExpectType("RPAREN")>>,
              toks, p, <<>>))

_parse_do(toks, p) ==
    LET Built(r) == IF r.ok THEN Ok(r.pos, DoExpr(_chain_lets(r.v[2]))) ELSE r IN
    Built(Run(<<ExpectIdent("do"), While("parse_expr"), ExpectType("RPAREN")>>, toks, p, <<>>))

_parse_list(toks, p) ==
    LET Built(r) == IF r.ok THEN Ok(r.pos, ListExpr(r.v[2])) ELSE r IN
    Built(Run(<<ExpectIdent("list"), While("parse_expr"), ExpectType("RPAREN")>>, toks, p, <<>>))

\* _parse_op, _parse_builtin, _parse_implicit_call: the head is taken as it is
HeadApplication(toks, p, kind) ==
    LET Built(r) == IF r.ok THEN Ok(r.pos, Node(kind, r.v[1].value, 0, r.v[2], <<>>)) ELSE r IN
    Built(Run(<<Advance, While("parse_expr"), ExpectType("RPAREN")>>, toks, p, <<>>))

_parse_op(toks, p) == HeadApplication(toks, p, "OpExpr")
_parse_builtin(toks, p) == HeadApplication(toks, p, "BuiltinExpr")
_parse_implicit_call(toks, p) == HeadApplication(toks, p, "CallExpr")

_parse_call(toks, p) ==
    LET Built(r) == IF r.ok THEN Ok(r.pos, CallExpr(r.v[2].value, r.v[3])) ELSE r IN
    Built(Run(<<ExpectIdent("call"), ExpectType("IDENT"), While("parse_expr"), ExpectType("RPAREN")>>,
              toks, p, <<>>))

_parse_record(toks, p) ==
    LET Built(r) ==
            IF r.ok THEN Ok(r.pos, RecordExpr(r.v[2].value, [i \in DOMAIN r.v[3] |-> Param(r.v[3][i].name)],
                                              [i \in DOMAIN r.v[3] |-> r.v[3][i].value]))
            ELSE r
    IN  Built(Run(<<ExpectIdent("record"), ExpectType("IDENT"), While("record field"),
                    ExpectType("RPAREN")>>, toks, p, <<>>))

_parse_get(toks, p) ==
    LET Built(r) == IF r.ok THEN Ok(r.pos, GetExpr(r.v[2], r.v[3].value)) ELSE r IN
    Built(Run(<<ExpectIdent("get"), Call("parse_expr"), ExpectType("IDENT"), ExpectType("RPAREN")>>,
              toks, p, <<>>))

_parse_some(toks, p) ==
    LET Built(r) == IF r.ok THEN Ok(r.pos, SomeExpr(r.v[2])) ELSE r IN
    Built(Run(<<ExpectIdent("some"), Call("parse_expr"), ExpectType("RPAREN")>>, toks, p, <<>>))

_parse_try(toks, p) ==
    LET Built(r) == IF r.ok THEN Ok(r.pos, TryExpr(r.v[2], r.v[5].value, r.v[6])) ELSE r IN
    Built(Run(<<ExpectIdent("try"), Call("parse_expr"), ExpectType("LPAREN"), ExpectIdent("catch"),
                ExpectType("IDENT"), Call("parse_expr"), ExpectType("RPAREN"), ExpectType("RPAREN")>>,
              toks, p, <<>>))

_parse_error(toks, p) ==
    LET Built(r) == IF r.ok THEN Ok(r.pos, ErrorExpr(r.v[2])) ELSE r IN
    Built(Run(<<ExpectIdent("error"), Call("parse_expr"), ExpectType("RPAREN")>>, toks, p, <<>>))

\* parse_sexpr after its expect, at the token head
SexprOf(toks, q, head) ==
    IF head.type # "IDENT"
    THEN Throw("ParseError", ParseError("Expected identifier at head of s-expression", "", head))
    ELSE CASE head.value = "let" -> _parse_let(toks, q)
           [] head.value = "if" -> _parse_if(toks, q)
           [] head.value = "match" -> _parse_match(toks, q)
           [] head.value = "lambda" -> _parse_lambda(toks, q)
           [] head.value = "pipe" -> _parse_pipe(toks, q)
           [] head.value = "do" -> _parse_do(toks, q)
           [] head.value = "call" -> _parse_call(toks, q)
           [] head.value = "list" -> _parse_list(toks, q)
           [] head.value = "record" -> _parse_record(toks, q)
           [] head.value = "get" -> _parse_get(toks, q)
           [] head.value = "some" -> _parse_some(toks, q)
           [] head.value = "try" -> _parse_try(toks, q)
           [] head.value = "error" -> _parse_error(toks, q)
           [] head.value \in OPERATORS -> _parse_op(toks, q)
           [] head.value \in BUILTINS \ SexprKeywords -> _parse_builtin(toks, q)
           [] OTHER -> _parse_implicit_call(toks, q)

parse_sexpr(toks, p) ==
    LET Headed(r) ==
            IF ~r.ok THEN r
            ELSE IF r.pos >= Len(toks) THEN Throw("IndexError", NoException)
            ELSE SexprOf(toks, r.pos, toks[r.pos + 1])
    IN  Headed(expect(toks, p, "LPAREN", NoValue))

\* parse_expr at the token tok
ExprOf(toks, p, tok) ==
    CASE tok.type = "INT" ->
            IF IntParses(tok.chars) THEN Ok(p + 1, LitExpr("int", IntOf(tok.chars)))
            ELSE Throw("ValueError", NoException)
      [] tok.type = "FLOAT" ->
            IF FloatParses(tok.chars) THEN Ok(p + 1, LitExpr("float", FloatOf(tok.chars)))
            ELSE Throw("ValueError", NoException)
      [] tok.type = "STRING" -> Ok(p + 1, LitExpr("string", tok.value))
      [] tok.type = "IDENT" ->
            Ok(p + 1, CASE tok.value = "true" -> LitExpr("bool", 1)
                        [] tok.value = "false" -> LitExpr("bool", 0)
                        [] tok.value = "unit" -> LitExpr("unit", 0)
                        [] tok.value = "none" -> NoneExpr
                        [] OTHER -> IdentExpr(tok.value))
      [] tok.type = "LPAREN" -> parse_sexpr(toks, p)
      [] OTHER -> Throw("ParseError", ParseError("Unexpected token", "", tok))

parse_expr(toks, p) ==
    IF p >= Len(toks) THEN Throw("IndexError", NoException) ELSE ExprOf(toks, p, toks[p + 1])

\* the second value of a run of calls
Second(r) == IF r.ok THEN Ok(r.pos, r.v[3]) ELSE r

parse_input_decl(toks, p) ==
    Second(Run(<<ExpectType("LPAREN"), ExpectIdent("input"), While("parse_param"), ExpectType("RPAREN")>>,
               toks, p, <<>>))

parse_output_decl(toks, p) ==
    Second(Run(<<ExpectType("LPAREN"), ExpectIdent("output"), Call("parse_type_expr"),
                 ExpectType("RPAREN")>>, toks, p, <<>>))

parse_effect_decl(toks, p) ==
    Second(Run(<<ExpectType("LPAREN"), ExpectIdent("effect"), While("effect name"), ExpectType("RPAREN")>>,
               toks, p, <<>>))

\* the expressions of the clauses of one kind, in order
RECURSIVE ClausesOf(_, _)
ClausesOf(clauses, kind) ==
    IF clauses = <<>> THEN <<>>
    ELSE (IF clauses[1].kind = kind THEN <<clauses[1].e>> ELSE <<>>) \o ClausesOf(Tail(clauses), kind)

parse_contract_decl(toks, p) ==
    LET Built(r) ==
            IF r.ok THEN Ok(r.pos, Contract(ClausesOf(r.v[3], "pre"), ClausesOf(r.v[3], "post"))) ELSE r
    IN  Built(Run(<<ExpectType("LPAREN"), ExpectIdent("contract"), While("contract clause"),
                    ExpectType("RPAREN")>>, toks, p, <<>>))

parse_body_decl(toks, p) ==
    Second(Run(<<ExpectType("LPAREN"), ExpectIdent("body"), Call("parse_expr"), ExpectType("RPAREN")>>,
               toks, p, <<>>))

\* self.<what>() from a list of calls
Parse(what, toks, p) ==
    CASE what = "parse_expr" -> parse_expr(toks, p)
      [] what = "parse_type_expr" -> parse_type_expr(toks, p)
      [] what = "parse_param" -> parse_param(toks, p)
      [] what = "parse_pattern" -> parse_pattern(toks, p)
      [] what = "parse_match_arm" -> parse_match_arm(toks, p)
      [] what = "parse_input_decl" -> parse_input_decl(toks, p)
      [] what = "parse_output_decl" -> parse_output_decl(toks, p)
      [] what = "parse_effect_decl" -> parse_effect_decl(toks, p)
      [] what = "parse_contract_decl" -> parse_contract_decl(toks, p)
      [] what = "parse_body_decl" -> parse_body_decl(toks, p)
      [] what = "enum variant" -> EnumVariant(toks, p)
      [] what = "lambda param" -> LambdaParam(toks, p)
      [] what = "record field" -> RecordField(toks, p)
      [] what = "contract clause" -> ContractClause(toks, p)
      [] what = "effect name" -> EffectName(toks, p)

_lookahead_keyword(toks, p, keyword) ==
    IF p + 1 < Len(toks) THEN toks[p + 2].value = keyword ELSE FALSE

parse_graph_def(toks, p) ==
    LET Built(r, q) ==
            IF q.ok
            THEN Ok(q.pos, Graph(r.v[1].value, r.v[2], r.v[3], r.v[4],
                                 IF Len(q.v) = 3 THEN q.v[1] ELSE NoContract, q.v[Len(q.v) - 1]))
            ELSE q
        Rest(r) ==
            IF ~r.ok THEN r
            ELSE IF r.pos >= Len(toks) THEN Throw("IndexError", NoException)
            ELSE IF at(toks, r.pos, "LPAREN") /\ _lookahead_keyword(toks, r.pos, "contract")
            THEN Built(r, Run(<<Call("parse_contract_decl"), Call("parse_body_decl"), ExpectType("RPAREN")>>,
                              toks, r.pos, <<>>))
            ELSE Built(r, Run(<<Call("parse_body_decl"), ExpectType("RPAREN")>>, toks, r.pos, <<>>))
    IN  Rest(Run(<<ExpectType("IDENT"), Call("parse_input_decl"), Call("parse_output_decl"),
                   Call("parse_effect_decl")>>, toks, p, <<>>))

parse_type_def(toks, p) ==
    LET Built(r) == IF r.ok THEN Ok(r.pos, TypeDef(r.v[1].value, r.v[2])) ELSE r IN
    Built(Run(<<ExpectType("IDENT"), Call("parse_type_expr"), ExpectType("RPAREN")>>, toks, p, <<>>))

parse_definition(toks, p) ==
    LET Defined(r) ==
            IF ~r.ok THEN r
            ELSE IF r.v[2].value = "type" THEN parse_type_def(toks, r.pos)
            ELSE IF r.v[2].value = "graph" THEN parse_graph_def(toks, r.pos)
            ELSE Throw("ParseError", ParseError("Expected 'type' or 'graph'", "", r.v[2]))
    IN  Defined(Run(<<ExpectType("LPAREN"), Advance>>, toks, p, <<>>))

(***************************************************************************)
(* parse(source): tokenize, Parser(tokens).parse_program(), the check for  *)
(* tokens after the program                                                *)
(***************************************************************************)
\* (program (graph f (input (n Int)) (output Int) (effect pure) (body 
SourceHead ==
    <<"(", "p", "r", "o", "g", "r", "a", "m", " ", "(", "g", "r", "a", "p", "h", " ", "f", " ",
    "(", "i", "n", "p", "u", "t", " ", "(", "n", " ", "I", "n", "t", ")", ")", " ", "(", "o", "u",
    "t", "p", "u", "t", " ", "I", "n", "t", ")", " ", "(", "e", "f", "f", "e", "c", "t", " ", "p",
    "u", "r", "e", ")", " ", "(", "b", "o", "d", "y", " ">>

\* )))
SourceTail == <<")", ")", ")">>

\* a program with type definitions, a contract, a comment and a string with an escape
SourceFull ==
    <<"(", "p", "r", "o", "g", "r", "a", "m", "\n", " ", " ", "(", "t", "y", "p", "e", " ", "P",
    " ", "(", "R", "e", "c", "o", "r", "d", " ", "(", "x", " ", "I", "n", "t", ")", ")", ")", "\n",
    " ", " ", "(", "t", "y", "p", "e", " ", "S", " ", "(", "E", "n", "u", "m", " ", "(", "R", "e",
    "d", ")", " ", "(", "C", "i", "r", "c", "l", "e", " ", "I", "n", "t", ")", ")", ")", "\n", " ",
    " ", "(", "g", "r", "a", "p", "h", " ", "f", " ", "(", "i", "n", "p", "u", "t", " ", "(", "n",
    " ", "I", "n", "t", ")", ")", " ", "(", "o", "u", "t", "p", "u", "t", " ", "(", "L", "i", "s",
    "t", " ", "I", "n", "t", ")", ")", " ", "(", "e", "f", "f", "e", "c", "t", " ", "p", "u", "r",
    "e", " ", "i", "o", ")", "\n", " ", " ", " ", " ", "(", "c", "o", "n", "t", "r", "a", "c", "t",
    " ", "(", "p", "r", "e", " ", "(", ">", " ", "n", " ", "0", ")", ")", " ", "(", "p", "o", "s",
    "t", " ", "t", "r", "u", "e", ")", ")", "\n", " ", " ", " ", " ", "(", "b", "o", "d", "y", " ",
    "(", "d", "o", " ", "(", "l", "e", "t", " ", "a", " ", "\"", "x", "\\", "\"", "y", "\"", ")",
    " ", "n", ")", ")", ")", ")", " ", ";", " ", "e", "n", "d">>

\* the texts of graph bodies: literals, atoms, strings, every form of parse_sexpr, malformed forms
BodyTexts ==
    { <<"1">>,
      <<"-", "1", "2">>,
      <<"²">>,
      <<"-", "²">>,
      <<"1", ".", "5">>,
      <<"1", ".", "²">>,
      <<"-", "0", ".", "5", "0">>,
      <<"n">>,
      <<"-">>,
      <<"1", ".", "5", ".", "2">>,
      <<"t", "r", "u", "e">>,
      <<"n", "o", "n", "e">>,
      <<"u", "n", "i", "t">>,
      <<"\"", "a", "\\", "t", "b", "\"">>,
      <<"\"", "a", "\n", "b", "\"">>,
      <<"\"", "a", "b">>,
      <<"\"", "a", "\n", "b">>,
      <<"\"", "a", "\\">>,
      <<"\f">>,
      <<"(", "+", " ", "n", " ", "1", ")">>,
      <<"(", "d", "o", " ", "(", "l", "e", "t", " ", "a", " ", "1", ")", " ", "(", "l", "e", "t",
      " ", "b", " ", "2", ")", " ", "(", "+", " ", "a", " ", "b", ")", ")">>,
      <<"(", "d", "o", " ", "(", "l", "e", "t", " ", "a", " ", "1", ")", ")">>,
      <<"(", "d", "o", ")">>,
      <<"(", "l", "e", "t", " ", "a", " ", "1", " ", "a", ")">>,
      <<"(", "l", "e", "t", " ", "a", ")">>,
      <<"(", "m", "a", "t", "c", "h", " ", "n", " ", "(", "1", " ", "2", ")", " ", "(", "_", " ",
      "3", ")", ")">>,
      <<"(", "m", "a", "t", "c", "h", " ", "n", " ", "(", "(", "C", "i", "r", "c", "l", "e", " ",
      "r", ")", " ", "r", ")", " ", "(", "t", "r", "u", "e", " ", "1", ")", " ", "(", "\"", "a",
      "\"", " ", "2", ")", " ", "(", "k", " ", "k", ")", ")">>,
      <<"(", "m", "a", "t", "c", "h", " ", "n", " ", "(", "1", ".", "5", " ", "0", ")", " ", "(",
      "²", " ", "1", ")", ")">>,
      <<"(", "m", "a", "t", "c", "h", " ", "n", " ", "(", "1", ".", "²", " ", "1", ")", ")">>,
      <<"(", "m", "a", "t", "c", "h", " ", "n", " ", "(", ")", ")">>,
      <<"(", "i", "f", " ", "t", "r", "u", "e", " ", "n", " ", "0", ")">>,
      <<"(", "i", "f", " ", "t", "r", "u", "e", " ", "n", ")">>,
      <<"(", "p", "i", "p", "e", " ", "n", " ", "(", "f", ")", " ", "g", ")">>,
      <<"(", "l", "a", "m", "b", "d", "a", " ", "(", "x", " ", "(", "y", " ", "I", "n", "t", ")",
      ")", " ", "x", ")">>,
      <<"(", "l", "a", "m", "b", "d", "a", " ", "x", " ", "x", ")">>,
      <<"(", "c", "a", "l", "l", " ", "f", " ", "n", ")">>,
      <<"(", "c", "a", "l", "l", " ", "1", ")">>,
      <<"(", "f", " ", "n", ")">>,
      <<"(", "l", "i", "s", "t", " ", "1", " ", "2", ")">>,
      <<"(", "r", "e", "c", "o", "r", "d", " ", "P", " ", "(", "x", " ", "1", ")", " ", "(", "y",
      " ", "n", ")", ")">>,
      <<"(", "r", "e", "c", "o", "r", "d", " ", "P", " ", "x", ")">>,
      <<"(", "g", "e", "t", " ", "n", " ", "x", ")">>,
      <<"(", "g", "e", "t", " ", "n", " ", "1", ")">>,
      <<"(", "s", "o", "m", "e", " ", "n", ")">>,
      <<"(", "t", "r", "y", " ", "n", " ", "(", "c", "a", "t", "c", "h", " ", "e", " ", "0", ")",
      ")">>,
      <<"(", "t", "r", "y", " ", "n", " ", "(", "e", " ", "0", ")", ")">>,
      <<"(", "e", "r", "r", "o", "r", " ", "\"", "a", "\"", ")">>,
      <<"(", "h", "e", "a", "d", " ", "n", ")">>,
      <<"(", "s", "e", "t", " ", "n", " ", "x", " ", "1", ")">>,
      <<"(", "n", "o", "n", "e", ")">>,
      <<"(", "1", " ", "2", ")">>,
      <<"(", ")">>,
      <<"(", "\"", "a", "\"", ")">>,
      <<"(", "+", " ", "1", " ", "²", ")">>,
      <<"n", ")", " ", "(", "b", "o", "d", "y", " ", "n">>,
      <<"n", " ", "n">> }

\* the texts of output types
TypeTexts ==
    { <<"(", "O", "p", "t", "i", "o", "n", " ", "I", "n", "t", ")">>,
      <<"(", "T", "u", "p", "l", "e", " ", "I", "n", "t", " ", "F", "l", "o", "a", "t", ")">>,
      <<"(", "-", ">", " ", "I", "n", "t", " ", "B", "o", "o", "l", ")">>,
      <<"(", "L", "i", "s", "t", " ", "(", "L", "i", "s", "t", " ", "P", ")", ")">>,
      <<"(", "F", "o", "o", " ", "I", "n", "t", ")">>,
      <<"(", ")">>,
      <<"1">>,
      <<"(", "R", "e", "c", "o", "r", "d", " ", "(", "x", " ", "I", "n", "t", ")", " ", "y", ")">>,
      <<"(", "E", "n", "u", "m", " ", "(", "A", " ", "I", "n", "t", " ", "I", "n", "t", ")", " ",
      "B", ")">>,
      <<"(", "L", "i", "s", "t">> }

\* the texts of contract declarations
ContractTexts ==
    { <<"(", "c", "o", "n", "t", "r", "a", "c", "t", ")">>,
      <<"(", "c", "o", "n", "t", "r", "a", "c", "t", " ", "(", "p", "r", "e", " ", "n", ")", " ",
      "(", "p", "r", "e", " ", "n", ")", ")">>,
      <<"(", "c", "o", "n", "t", "r", "a", "c", "t", " ", "(", "i", "n", "v", " ", "n", ")", ")">>,
      <<"(", "c", "o", "n", "t", "r", "a", "c", "t", " ", "(", "p", "r", "e", " ", "n", ")">>,
      <<"(", "c", "o", "n", "t", "r", "a", "c", "t", " ", "p", "r", "e", ")">> }

\* texts that are no graph in a program
OtherTexts ==
    { <<>>,
      <<"(">>,
      <<")">>,
      <<"(", "p", "r", "o", "g", "r", "a", "m", ")">>,
      <<"(", "p", "r", "o", "g", "r", "a", "m", ")", " ", "x">>,
      <<"(", "p", "r", "o", "g", "r", "a", "m", ")", ")">>,
      <<"(", "g", "r", "a", "p", "h", ")">>,
      <<"(", "\"", "p", "r", "o", "g", "r", "a", "m", "\"", ")">>,
      <<"(", "p", "r", "o", "g", "r", "a", "m", " ", "(", "t", "y", "p", "e", ")", ")">>,
      <<"(", "p", "r", "o", "g", "r", "a", "m", " ", "(", "t", "y", "p", "e", " ", "T", ")", ")">>,
      <<"(", "p", "r", "o", "g", "r", "a", "m", " ", "(", "t", "y", "p", "e", " ", "T", " ", "I",
      "n", "t", ")", ")">>,
      <<"(", "p", "r", "o", "g", "r", "a", "m", " ", "(", "g", "r", "a", "p", "h", " ", "f", ")",
      ")">>,
      <<"(", "p", "r", "o", "g", "r", "a", "m", " ", "(", "o", "t", "h", "e", "r", " ", "f", ")",
      ")">>,
      <<"(", "p", "r", "o", "g", "r", "a", "m", " ", "(", "\"", "t", "y", "p", "e", "\"", " ", "T",
      " ", "I", "n", "t", ")", ")">>,
      <<"(", "p", "r", "o", "g", "r", "a", "m", " ", "(", "1", ")", ")">>,
      <<"(", "p", "r", "o", "g", "r", "a", "m", " ", "1", ")">>,
      <<";", " ", "o", "n", "l", "y", " ", "a", " ", "c", "o", "m", "m", "e", "n", "t">>,
      <<"(", "p", "r", "o", "g", "r", "a", "m", ")", "\t", "\r", "\n", " ", ";", " ", "c", "\n">>,
      <<"(", "p", "r", "o", "g", "r", "a", "m", " ", "(", "g", "r", "a", "p", "h", " ", "f", " ",
      "(", "i", "n", "p", "u", "t", ")", " ", "(", "o", "u", "t", "p", "u", "t", " ", "I", "n",
      "t", ")", " ", "(", "e", "f", "f", "e", "c", "t", ")", " ", "(", "b", "o", "d", "y", " ",
      "1", ")", ")", ")">>,
      <<"(", "p", "r", "o", "g", "r", "a", "m", " ", "(", "g", "r", "a", "p", "h", " ", "f", " ",
      "(", "i", "n", "p", "u", "t", ")", " ", "(", "o", "u", "t", "p", "u", "t", " ", "I", "n",
      "t", ")", " ", "(", "e", "f", "f", "e", "c", "t", " ", "1", ")", " ", "(", "b", "o", "d",
      "y", " ", "1", ")", ")", ")">>,
      <<"(", "p", "r", "o", "g", "r", "a", "m", " ", "(", "g", "r", "a", "p", "h", " ", "f", " ",
      "(", "i", "n", "p", "u", "t", ")", " ", "(", "o", "u", "t", "p", "u", "t", " ", "I", "n",
      "t", ")", " ", "(", "e", "f", "f", "e", "c", "t", " ", "p", "u", "r", "e", ")", " ", "(",
      "b", "o", "d", "y", " ", "1", ")", ")", " ", "(", "t", "y", "p", "e", " ", "T", " ", "I",
      "n", "t", ")", ")">> }

\* (program (graph f (input) (output 
SourceToType == <<"(", "p", "r", "o", "g", "r", "a", "m", " ", "(", "g", "r", "a", "p", "h", " ", "f", " ",
    "(", "i", "n", "p", "u", "t", ")", " ", "(", "o", "u", "t", "p", "u", "t", " ">>

\* ) (effect pure) (body 1)))
SourceFromType == <<")", " ", "(", "e", "f", "f", "e", "c", "t", " ", "p", "u", "r", "e", ")", " ", "(", "b",
    "o", "d", "y", " ", "1", ")", ")", ")">>

\* (program (graph f (input) (output Int) (effect pure) 
SourceToContract ==
    <<"(", "p", "r", "o", "g", "r", "a", "m", " ", "(", "g", "r", "a", "p", "h", " ", "f", " ",
    "(", "i", "n", "p", "u", "t", ")", " ", "(", "o", "u", "t", "p", "u", "t", " ", "I", "n", "t",
    ")", " ", "(", "e", "f", "f", "e", "c", "t", " ", "p", "u", "r", "e", ")", " ">>

\*  (body 1)))
SourceFromContract == <<" ", "(", "b", "o", "d", "y", " ", "1", ")", ")", ")">>

MaxItems == 3

\* what a do-block is written from: the text of an expression, the node
\* parse_expr returns for it on its own, and whether it is a let written
\* without a body
DoItem(text, node, bodyless) == [text |-> text, node |-> node, bodyless |-> bodyless]

DoItems ==
    { DoItem(<<"(", "l", "e", "t", " ", "a", " ", "1", ")">>,
             LetExpr("a", LitExpr("int", 1), LitExpr("unit", 0)), TRUE),
      DoItem(<<"(", "l", "e", "t", " ", "b", " ", "2", " ", "b", ")">>,
             LetExpr("b", LitExpr("int", 2), IdentExpr("b")), FALSE),
      DoItem(<<"(", "l", "e", "t", " ", "c", " ", "3", " ", "u", "n", "i", "t", ")">>,
             LetExpr("c", LitExpr("int", 3), LitExpr("unit", 0)), FALSE),
      DoItem(<<"n">>, IdentExpr("n"), FALSE),
      DoItem(<<"(", "d", "o", " ", "(", "l", "e", "t", " ", "d", " ", "4", ")", " ", "n", ")">>,
             DoExpr(<<LetExpr("d", LitExpr("int", 4), IdentExpr("n"))>>), FALSE) }

DoItemSeqs == SeqsUpTo(DoItems, 0, MaxItems)

\* (do item ... item)
RECURSIVE ItemsText(_)
ItemsText(items) ==
    IF items = <<>> THEN <<>> ELSE <<" ">> \o items[1].text \o ItemsText(Tail(items))

DoText(items) == <<"(", "d", "o">> \o ItemsText(items) \o <<")">>

\* the texts given to parse: programs around each body, type and contract text,
\* the full program cut at every length and followed by more text, the others
ParseSources ==
    { SourceHead \o b \o SourceTail : b \in BodyTexts }
    \cup { SourceHead \o DoText(items) \o SourceTail : items \in DoItemSeqs }
    \cup { SourceToType \o t \o SourceFromType : t \in TypeTexts }
    \cup { SourceToContract \o c \o SourceFromContract : c \in ContractTexts }
    \cup { SubSeq(SourceFull, 1, n) : n \in 0..Len(SourceFull) }
    \cup { SourceFull \o t : t \in {<<"\n", "(">>, <<" ", "x">>, <<")">>, <<"\"">>} }
    \cup OtherTexts

checkerVars == <<errors, graph_effects, type_defs, graph_sigs>>

InitParse ==
    /\ source \in ParseSources
    /\ pc = "tokenize"
    /\ program = <<>>
    /\ type_defs = EmptyDict /\ graph_sigs = EmptyDict /\ graph_effects = EmptyDict
    /\ errors = <<>> /\ lines = <<>> /\ raised = "none" /\ tokens = <<>> /\ pos = 0
    /\ line = 1 /\ col = 1 /\ caught = NoException
    /\ needs = [functools |-> FALSE, dataclasses |-> FALSE, callable |-> FALSE]
    /\ idx = 0
    /\ returned = <<>>

\* an exception leaves parse
Raises(type, e) ==
    /\ raised' = type
    /\ caught' = e
    /\ pc' = "raised"

\* tokenize, the loop body by its branches: whitespace other than a newline
Lexer_whitespace ==
    /\ pc = "tokenize" /\ idx < Len(source)
    /\ source[idx + 1] \in {" ", "\t", "\r"}
    /\ idx' = idx + 1
    /\ col' = col + 1
    /\ UNCHANGED <<program, pc, raised, caught, tokens, pos, source, line, checkerVars, emitterVars, returned>>

Lexer_newline ==
    /\ pc = "tokenize" /\ idx < Len(source)
    /\ source[idx + 1] = "\n"
    /\ idx' = idx + 1
    /\ line' = line + 1
    /\ col' = 1
    /\ UNCHANGED <<program, pc, raised, caught, tokens, pos, source, checkerVars, emitterVars, returned>>

\* a comment loop that consumes nothing
Lexer_comment_staying ==
    /\ pc = "tokenize" /\ idx < Len(source)
    /\ source[idx + 1] = ";"
    /\ idx' = idx
    /\ UNCHANGED <<program, pc, raised, caught, tokens, pos, source, line, col, checkerVars, emitterVars, returned>>

Lexer_comment ==
    /\ pc = "tokenize" /\ idx < Len(source)
    /\ source[idx + 1] = ";"
    /\ idx' = CommentEnd(source, idx)
    /\ UNCHANGED <<program, pc, raised, caught, tokens, pos, source, line, col, checkerVars, emitterVars, returned>>

Lexer_lparen ==
    /\ pc = "tokenize" /\ idx < Len(source)
    /\ source[idx + 1] = "("
    /\ tokens' = Append(tokens, Token("LPAREN", "(", <<"(">>, line, col))
    /\ idx' = idx + 1
    /\ col' = col + 1
    /\ UNCHANGED <<program, pc, raised, caught, pos, source, line, checkerVars, emitterVars, returned>>

Lexer_rparen ==
    /\ pc = "tokenize" /\ idx < Len(source)
    /\ source[idx + 1] = ")"
    /\ tokens' = Append(tokens, Token("RPAREN", ")", <<")">>, line, col))
    /\ idx' = idx + 1
    /\ col' = col + 1
    /\ UNCHANGED <<program, pc, raised, caught, pos, source, line, checkerVars, emitterVars, returned>>

Lexer_string ==
    /\ pc = "tokenize" /\ idx < Len(source)
    /\ source[idx + 1] = "\""
    /\ LET s == StringLoop(source, idx + 1, line, col + 1, <<>>) IN
       IF s.i >= Len(source)
       THEN /\ Raises("LexError", LexError("Unterminated string literal", s.line, col))
            /\ UNCHANGED <<tokens, idx, line, col>>
       ELSE /\ tokens' = Append(tokens, Token("STRING", Join(s.buf), s.buf, s.line, col))
            /\ idx' = s.i + 1
            /\ line' = s.line
            /\ col' = s.col + 1
            /\ UNCHANGED <<pc, raised, caught>>
    /\ UNCHANGED <<program, pos, source, checkerVars, emitterVars, returned>>

Lexer_atom ==
    /\ pc = "tokenize" /\ idx < Len(source)
    /\ _is_atom_char(source[idx + 1])
    /\ LET end == AtomEnd(source, idx) IN
       /\ tokens' = Append(tokens, _classify_atom(SubSeq(source, idx + 1, end), line, col))
       /\ idx' = end
       /\ col' = col + (end - idx)
    /\ UNCHANGED <<program, pc, raised, caught, pos, source, line, checkerVars, emitterVars, returned>>

Lexer_unexpected ==
    /\ pc = "tokenize" /\ idx < Len(source)
    /\ source[idx + 1] \notin {" ", "\t", "\r", "\n", ";", "(", ")", "\""}
    /\ ~_is_atom_char(source[idx + 1])
    /\ Raises("LexError", LexError("Unexpected character", line, col))
    /\ UNCHANGED <<program, tokens, pos, source, idx, line, col, checkerVars, emitterVars, returned>>

Lexer_return ==
    /\ pc = "tokenize" /\ idx >= Len(source)
    /\ tokens' = Append(tokens, Token("EOF", "", <<>>, line, col))
    /\ pc' = "parse_program"
    /\ UNCHANGED <<program, raised, caught, pos, source, idx, line, col, checkerVars, emitterVars, returned>>

\* parse_program up to its loop
Parser_parse_program ==
    /\ pc = "parse_program"
    /\ LET r1 == expect(tokens, pos, "LPAREN", NoValue)
           r2 == IF r1.ok THEN expect_ident(tokens, r1.pos, Value("program")) ELSE r1
       IN  IF r2.ok
           THEN pos' = r2.pos /\ pc' = "parse_definitions" /\ UNCHANGED <<raised, caught>>
           ELSE Raises(r2.raised, r2.caught) /\ UNCHANGED pos
    /\ UNCHANGED <<program, tokens, source, idx, line, col, checkerVars, emitterVars, returned>>

\* parse_program, one turn of its loop
Parser_parse_definition ==
    /\ pc = "parse_definitions"
    /\ LET t == peek(tokens, pos) IN
       /\ ~(t.ok /\ t.v.type = "RPAREN")
       /\ LET r == IF t.ok THEN parse_definition(tokens, pos) ELSE t IN
          IF r.ok
          THEN program' = Append(program, r.v) /\ pos' = r.pos /\ UNCHANGED <<pc, raised, caught>>
          ELSE Raises(r.raised, r.caught) /\ UNCHANGED <<program, pos>>
    /\ UNCHANGED <<tokens, source, idx, line, col, checkerVars, emitterVars, returned>>

\* parse_program after its loop
Parser_parse_program_return ==
    /\ pc = "parse_definitions"
    /\ LET t == peek(tokens, pos) IN t.ok /\ t.v.type = "RPAREN"
    /\ pos' = pos + 1
    /\ pc' = "parse_at_eof"
    /\ UNCHANGED <<program, raised, caught, tokens, source, idx, line, col, checkerVars, emitterVars, returned>>

\* parse after parse_program
Parser_return ==
    /\ pc = "parse_at_eof"
    /\ LET t == peek(tokens, pos) IN
       IF ~t.ok THEN Raises(t.raised, t.caught)
       ELSE IF t.v.type # "EOF"
       THEN Raises("ParseError", ParseError("Unexpected tokens after program", "", t.v))
       ELSE pc' = "parsed" /\ UNCHANGED <<raised, caught>>
    /\ UNCHANGED <<program, tokens, pos, source, idx, line, col, checkerVars, emitterVars, returned>>

NextParse ==
    \/ Lexer_whitespace
    \/ Lexer_newline
    \/ Lexer_comment
    \/ Lexer_lparen
    \/ Lexer_rparen
    \/ Lexer_string
    \/ Lexer_atom
    \/ Lexer_unexpected
    \/ Lexer_return
    \/ Parser_parse_program
    \/ Parser_parse_definition
    \/ Parser_parse_program_return
    \/ Parser_return

SpecParse == InitParse /\ [][NextParse]_vars

\* C5: parse returns a Program only when every token up to the end of the
\* input has been read, and the only exceptions that leave it are LexError and
\* ParseError.
C5_ParseAllOrNothing ==
    /\ raised \in {"none", "LexError", "ParseError"}
    /\ pc = "parsed" => raised = "none" /\ pos + 1 = Len(tokens) /\ tokens[pos + 1].type = "EOF"

\* C24: every ParseError that leaves parse carries the offending token, one
\* of the tokens of the text, with its kind, text, line and column.
C24_ParseErrorCarriesToken ==
    (pc = "raised" /\ raised = "ParseError") =>
        /\ caught.has_token
        /\ \E i \in DOMAIN tokens : tokens[i] = caught.token
        /\ caught.line = caught.token.line /\ caught.col = caught.token.col

\* the expressions of a do-block written as items, each let written
\* without a body holding the items after it
RECURSIVE Threaded(_)
Threaded(items) ==
    IF items = <<>> THEN <<>>
    ELSE IF items[1].bodyless /\ Len(items) > 1
    THEN LET Holding(remaining) ==
                <<LetExpr(items[1].node.name, items[1].node.args[1],
                          IF Len(remaining) = 1 THEN remaining[1] ELSE DoExpr(remaining))>>
         IN  Holding(Threaded(Tail(items)))
    ELSE <<items[1].node>> \o Threaded(Tail(items))

\* C17: in the parsed do-block a let written without a body and followed by
\* siblings has those siblings as its body (the one left, or a do-block of
\* them), recursively, and nothing stands after it; every other expression,
\* a let written with a body among them, is what was written.
C17_BodylessLetsChained ==
    pc = "parsed" =>
        \A items \in DoItemSeqs :
            source = SourceHead \o DoText(items) \o SourceTail =>
                program[1].body = DoExpr(Threaded(items))

(***************************************************************************)
(* The entry points on one Program: check_types, check_effects,            *)
(* check_contracts and compile_to_python, called one after the other in    *)
(* any order, each on an object of its own made by the call.               *)
(***************************************************************************)
MaxCalls == 4

Entries == {"check_types", "check_effects", "check_contracts", "compile_to_python"}

PassBodies ==
    { IdentExpr("n"), CallExpr("head", <<IdentExpr("xs")>>), CallExpr("+", <<IdentExpr("n"), Lit1>>),
      BuiltinExpr("print", <<LitS>>), ErrorExpr(LitS), BuiltinExpr("head", <<>>),
      LetExpr("a", Lit1, DoExpr(<<BuiltinExpr("print", <<IdentExpr("a")>>),
                                  OpExpr("+", <<IdentExpr("a"), IdentExpr("y")>>)>>)),
      CallExpr("g", <<LitS>>), BuiltinExpr("reduce", <<Lam2, Lit0, IdentExpr("xs")>>),
      MatchExpr(IdentExpr("c"), <<ConstructorPattern("Circle", <<IdentPattern("r")>>), WildcardPattern>>,
                <<IdentExpr("r"), Lit0>>) }

PassContracts ==
    { NoContract,
      Contract(<<OpExpr(">", <<IdentExpr("n"), Lit0>>)>>,
               <<IfExpr(LitT, OpExpr(">", <<IdentExpr("result"), IdentExpr("y")>>), LitT)>>) }

PassPrograms ==
    { <<Shape, Point,
        Graph("f", <<Input("n", T_INT), Input("xs", ListType(T_INT)), Input("c", NamedType("Shape"))>>,
              T_INT, <<"pure">>, c, b),
        Graph("g", <<Input("k", T_INT)>>, T_FLOAT, <<"io">>, NoContract, IdentExpr("k"))>> :
      c \in PassContracts, b \in PassBodies }

InitPasses ==
    /\ program \in PassPrograms
    /\ pc = "idle"
    /\ Idle

\* where an entry point starts and where it has its value
StartOf(entry) ==
    CASE entry = "check_types" -> "tc_start"   [] entry = "check_effects" -> "ec_start"
      [] entry = "check_contracts" -> "cc_check" [] entry = "compile_to_python" -> "em_start"
EndsOf(entry) ==
    CASE entry = "check_types" -> {"tc_done"}     [] entry = "check_effects" -> {"ec_done"}
      [] entry = "check_contracts" -> {"cc_done"} [] entry = "compile_to_python" -> {"em_done", "em_raised"}

\* checker = TypeChecker(program), EffectChecker(program), ContractChecker(program),
\* emitter = PythonEmitter(): the call makes the object its method runs on
EntryPoint_call(entry) ==
    /\ pc = "idle"
    /\ Len(returned) < MaxCalls
    /\ pc' = StartOf(entry)
    /\ idx' = 0
    /\ raised' = "none"
    /\ IF entry = "compile_to_python"
       THEN /\ lines' = PythonEmitter.lines
            /\ needs' = PythonEmitter.needs
            /\ UNCHANGED checkerVars
       ELSE /\ errors' = <<>>
            /\ type_defs' = EmptyDict /\ graph_sigs' = EmptyDict /\ graph_effects' = EmptyDict
            /\ UNCHANGED emitterVars
    /\ UNCHANGED <<program, parserVars, returned>>

\* return checker.check(), return emitter.emit(program), or the exception of emit
EntryPoint_return(entry) ==
    /\ pc \in EndsOf(entry)
    /\ returned' = Append(returned, [call |-> entry, raised |-> raised,
                                      value |-> IF entry # "compile_to_python" THEN errors
                                                ELSE IF raised = "none" THEN lines ELSE <<>>])
    /\ pc' = "idle"
    /\ UNCHANGED <<program, idx, raised, checkerVars, emitterVars, parserVars>>

NextPasses ==
    \/ \E entry \in Entries : EntryPoint_call(entry)
    \/ NextTypes
    \/ NextEffects
    \/ NextContracts
    \/ NextEmit
    \/ \E entry \in Entries : EntryPoint_return(entry)

SpecPasses == InitPasses /\ [][NextPasses]_vars

\* the values compile_to_python has returned, or the exceptions it raised
Compiled == { i \in DOMAIN returned : returned[i].call = "compile_to_python" }

C12_ProgramUnchanged == [][program' = program]_vars

\* the four entry points have returned, on a program in which _call_expr
\* routed a call to the builtin emitter
C12_Witness ==
    /\ \A entry \in Entries : \E i \in DOMAIN returned : returned[i].call = entry
    /\ \E g \in Graphs(program) :
           \E e \in SubExprs(g.body) : e.k = "CallExpr" /\ e.name \in _ALL_BUILTINS

(***************************************************************************)
(* The names of a program, from the text to the emitted text: tokenize      *)
(* classifies each atom, the parser takes the value of an IDENT token as a *)
(* name, and the emitter writes _sanitize_name of it.                      *)
(***************************************************************************)
MaxNameLen == 2

\* str.replace(old, new) with old one character, on the characters of a text
RECURSIVE replace(_, _, _)
replace(chars, old, new) ==
    IF chars = <<>> THEN <<>>
    ELSE (IF chars[1] = old THEN new ELSE <<chars[1]>>) \o replace(Tail(chars), old, new)

\* _sanitize_name on the characters of a name
SanitizedChars(chars) ==
    LET name == replace(replace(chars, "-", <<"_">>), "?", <<"_", "q">>) IN
    IF Join(name) \in PyReserved THEN Append(name, "_") ELSE name

\* the characters of the texts below: letters, digits, the two characters
\* _sanitize_name replaces, other atom characters, and the characters that
\* end an atom
NameLetters == {"i", "f"}
NameChars == NameLetters \cup {"1", "²", "-", "?", "!", "_", "."}
OtherChars == {"(", ")", " ", "\n", ";", "\"", "\f"}

\* the host language: the characters that may start and continue an
\* identifier (str.isidentifier), and its reserved words (keyword.kwlist)
IdStart == NameLetters \cup {"q", "a", "w", "t", "_"}
IdContinue == IdStart \cup DecimalDigits

isidentifier(chars) ==
    /\ chars # <<>>
    /\ chars[1] \in IdStart
    /\ \A i \in DOMAIN chars : chars[i] \in IdContinue

PyKeywords ==
    { "False", "None", "True", "and", "as", "assert", "async", "await", "break",
      "class", "continue", "def", "del", "elif", "else", "except", "finally",
      "for", "from", "global", "if", "import", "in", "is", "lambda", "nonlocal",
      "not", "or", "pass", "raise", "return", "try", "while", "with", "yield" }

\* every text of up to MaxNameLen characters, the empty text included, and some longer ones
NameSources ==
    SeqsUpTo(NameChars \cup OtherChars, 0, MaxNameLen)
    \cup { <<"a", "w", "a", "i", "t">>,
           <<"\"", "\"", "1">>,
           <<"\"", "i", "\n", "f">>,
           <<"\n", "\"", "\n", "\n">>,
           <<";", "1", "\n", "1", ".", "1">>,
           <<"(", "i", "-", "?", " ", "-", "1", "\n", "\"", "i", "\n", "\"", ")", ";">>,
           <<"i", "f", "!">>, <<"i", "?", "-">>, <<"_", "1", "²">>, <<"1", ".", "i">> }

InitNames ==
    /\ source \in NameSources
    /\ pc = "tokenize"
    /\ program = <<>>
    /\ type_defs = EmptyDict /\ graph_sigs = EmptyDict /\ graph_effects = EmptyDict
    /\ errors = <<>> /\ lines = <<>> /\ raised = "none" /\ tokens = <<>> /\ pos = 0
    /\ line = 1 /\ col = 1 /\ caught = NoException
    /\ needs = [functools |-> FALSE, dataclasses |-> FALSE, callable |-> FALSE]
    /\ idx = 0
    /\ returned = <<>>

\* the IDENT tokens, whose values the parser takes as names
IdentTokens(toks) == SelectSeq(toks, LAMBDA t : t.type = "IDENT")

\* the emitter writes the name of each IDENT token
Emitter_sanitize_names ==
    /\ pc = "parse_program"
    /\ lines' = [i \in DOMAIN IdentTokens(tokens) |->
                    Line(0, "name", Join(SanitizedChars(IdentTokens(tokens)[i].chars)), NoTerm)]
    /\ pc' = "names_written"
    /\ UNCHANGED <<program, raised, caught, tokens, pos, source, idx, line, col, needs,
                   checkerVars, returned>>

NextNames ==
    \/ Lexer_whitespace
    \/ Lexer_newline
    \/ Lexer_comment
    \/ Lexer_lparen
    \/ Lexer_rparen
    \/ Lexer_string
    \/ Lexer_atom
    \/ Lexer_unexpected
    \/ Lexer_return
    \/ Emitter_sanitize_names

SpecNames == InitNames /\ [][NextNames]_vars

\* C15: every name the emitter writes is an identifier of the host language
\* and none of its reserved words, for every atom that tokenize classifies
\* as an identifier.
C15_NamesAreHostIdentifiers ==
    pc = "names_written" =>
        \A i \in DOMAIN lines :
            LET written == SanitizedChars(IdentTokens(tokens)[i].chars) IN
            /\ lines[i].name = Join(written)
            /\ isidentifier(written)
            /\ lines[i].name \notin PyKeywords

(***************************************************************************)
(* The three checkers on programs of several graphs, with and without      *)
(* diagnostics.                                                            *)
(***************************************************************************)
MaxGraphs == 3

\* graphs with no diagnostic, with diagnostics of the type and contract
\* checkers, with a diagnostic of the effect checker, and with diagnostics
\* that hang on the signature and effects of another graph
CheckGraphs ==
    { Graph("a", <<Input("n", T_INT)>>, T_INT, <<"pure">>, NoContract, IdentExpr("n")),
      Graph("b", <<Input("n", T_INT)>>, T_INT, <<"pure">>,
            Contract(<<OpExpr(">", <<IdentExpr("z"), Lit0>>)>>, <<IdentExpr("w")>>),
            OpExpr("+", <<LitS, IdentExpr("u")>>)),
      Graph("c", <<Input("n", T_INT)>>, T_FLOAT, <<"io">>, NoContract,
            DoExpr(<<BuiltinExpr("print", <<LitS>>), BuiltinExpr("error", <<LitS>>), LitS>>)),
      Graph("d", <<Input("n", T_INT)>>, T_INT, <<"pure">>,
            Contract(<<IdentExpr("n")>>, <<IdentExpr("result"), IdentExpr("m")>>),
            CallExpr("c", <<LitS>>)) }

CheckPrograms == { <<Point>> \o gs : gs \in SeqsUpTo(CheckGraphs, 0, MaxGraphs) }

InitChecks ==
    /\ program \in CheckPrograms
    /\ pc \in {"tc_start", "ec_start", "cc_check"}
    /\ Idle

NextChecks == NextTypes \/ NextEffects \/ NextContracts

SpecChecks == InitChecks /\ [][NextChecks]_vars

\* the diagnostics a pass gives for one definition, checked on its own
DiagsOfDefinition(pass, d) ==
    IF d.k # "Graph" THEN <<>>
    ELSE CASE pass = "types" -> _check_graph(Self, d)
           [] pass = "effects" -> EffectCheckGraph(d, graph_effects)
           [] pass = "contracts" -> IF d.contract.has THEN _check_contract(d) ELSE <<>>

\* the diagnostics of the first k definitions, one after the other
RECURSIVE DiagsUpTo(_, _)
DiagsUpTo(pass, k) ==
    IF k = 0 THEN <<>> ELSE DiagsUpTo(pass, k - 1) \o DiagsOfDefinition(pass, program[k])

\* C21: the checkers never stop early: while a checker runs its list holds
\* the diagnostics of every definition it has passed, in definition order,
\* each as the graph gives them on its own, and the list it returns holds
\* those of every graph of the program.
C21_EveryGraphChecked ==
    /\ pc \in {"tc_check", "tc_done"} => errors = DiagsUpTo("types", idx)
    /\ pc \in {"ec_check", "ec_done"} => errors = DiagsUpTo("effects", idx)
    /\ pc \in {"cc_check", "cc_done"} => errors = DiagsUpTo("contracts", idx)
    /\ pc \in {"tc_done", "ec_done", "cc_done"} => idx = Len(program)

\* check_types has returned on a program of three graphs of which the first
\* and the last have diagnostics
C21_Witness ==
    /\ pc = "tc_done" /\ Len(program) = 4
    /\ DiagsOfDefinition("types", program[2]) # <<>>
    /\ DiagsOfDefinition("types", program[4]) # <<>>
    /\ Len(errors) = Len(DiagsOfDefinition("types", program[2]))
                     + Len(DiagsOfDefinition("types", program[3]))
                     + Len(DiagsOfDefinition("types", program[4]))

(***************************************************************************)
(* tokenize: where a text position stands, and what tokenize ends with     *)
(***************************************************************************)
\* the line and the column of the character at 0-based index i of a text:
\* lines and columns count from 1, a newline ends its line
LineAt(src, i) == 1 + Cardinality({ j \in 1..i : src[j] = "\n" })
ColumnAt(src, i) ==
    LET before == { j \in 1..i : src[j] = "\n" } IN
    IF before = {} THEN i + 1 ELSE i + 1 - (CHOOSE j \in before : \A k \in before : k <= j)

\* C22: the LexError of a string literal without a closing quote carries the
\* line and the column of the opening quote, also when newlines stand between
\* the opening quote and the end of the text.
C22_UnterminatedAtOpeningQuote ==
    (pc = "raised" /\ raised = "LexError" /\ caught.msg = "Unterminated string literal") =>
        /\ source[idx + 1] = "\""
        /\ caught.line = LineAt(source, idx)
        /\ caught.col = ColumnAt(source, idx)

\* tokenize runs on: a step that can be taken is taken
LiveNames == SpecNames /\ WF_vars(NextNames)

\* C23: tokenize terminates on every text: each iteration of its loop
\* consumes at least one character, and it ends either raising a LexError or
\* returning tokens of which the last, and no other, is the end-of-input
\* token.
C23_TokenizeTerminates ==
    /\ <>(pc # "tokenize")
    /\ [][pc = "tokenize" /\ pc' = "tokenize" => idx' > idx]_vars
    /\ [](pc = "raised" => raised = "LexError")
    /\ [](pc \notin {"tokenize", "raised"} =>
              /\ raised = "none" /\ tokens # <<>>
              /\ \A i \in DOMAIN tokens : tokens[i].type = "EOF" <=> i = Len(tokens))

\* tokenize has returned the tokens of a text that holds a string and an atom
C23_Witness ==
    /\ pc = "parse_program"
    /\ Len(tokens) = 3 /\ tokens[1].type = "STRING" /\ tokens[2].type \in {"INT", "IDENT"}

====
